---- MODULE Spec2Model ----
(***************************************************************************)
(* A model of the kiss3d frame pipeline: the window's render loop and      *)
(* event dispatch (src/src/window.rs), the framebuffer manager             *)
(* (src/src/resources/framebuffers_manager.rs), the first-person camera    *)
(* (src/src/camera/first_person.rs) and the scene's object list            *)
(* (src/src/window.rs, src/src/object.rs).                                 *)
(*                                                                         *)
(* The module holds fourteen specifications over one set of variables:     *)
(*   Spec        the window: setup, render_loop, poll_events, draw         *)
(*   SpecPoll    the window polled by hand with arbitrary event handlers   *)
(*   SpecFbm     the framebuffer manager under select and resize calls     *)
(*   SpecCam     the first-person camera under arbitrary operations        *)
(*   SpecScene   the scene list under add / objects_mut / remove           *)
(*   SpecAssets  the geometry registry under add_<built-in> and add_obj    *)
(*   SpecVisible the scene drawn with objects shown and hidden             *)
(*   SpecObj     the setters of Object and modify_mesh                     *)
(*   SpecQuad    add_quad                                                  *)
(*   SpecGl      the graphics calls of the core and their error checks     *)
(*   SpecHandoff the event queue between the callbacks and poll_events     *)
(*   SpecKeys    the key and button callbacks with their native actions    *)
(*   SpecShaders the selected shader program during the passes of a frame  *)
(*   SpecDrop    offscreen render targets going out of scope               *)
(* Each specification leaves the variables of the other parts unchanged.   *)
(***************************************************************************)
EXTENDS Integers, Sequences, FiniteSets, Bags, TLC

VARIABLES
    \* ---- Window (window.rs:45-60) and the position in render_loop
    pc,                 \* "setup" | "loop_head" | "glfw_poll" | "in_callback"
                        \* | "poll_events" | "draw" | "returned"
    should_close,       \* glfw window close flag
    events,             \* Window.events: the RWArc<~[Event]> queue
    post_processing,    \* Window.post_processing.is_some()
    max_ms_per_frame,   \* Window.max_ms_per_frame: NoLimit or a number of ms
    camera,             \* Window.camera: the active camera (a record)
    win_size,           \* glfw window size, <<w, h>>
    view,               \* scissor, viewport and offscreen target size
    log,                \* the calls made during the current frame
    closed_on_entry,    \* history: close flag when render_loop was entered
    callback_invoked,   \* history: the per-frame callback ran at least once
    \* ---- FramebuffersManager (framebuffers_manager.rs:70-75) and the GL context
    fbm,                \* [curr_fbo, curr_color, curr_depth, fbo]
    gl,                 \* the graphics context: bindings, attachments, sizes
    sel,                \* history of the last two select calls
    glrun,              \* the core operation issuing graphics calls, and the error flag
    \* ---- FirstPerson (first_person.rs:15-38)
    cam,                \* the camera's fields
    cam_hist,           \* history of the last camera operation
    \* ---- the scene (window.rs:48, object.rs:23-37)
    objects,            \* Window.objects: a sequence of Object handles
    heap,               \* ObjectData allocations: id -> field values
    geometries,         \* Window.geometries: registry key -> Mesh allocation
    meshes,             \* Mesh allocations: id -> the mesh
    scene_hist          \* history of the last scene operation

winVars   == <<pc, should_close, events, post_processing, max_ms_per_frame,
               camera, win_size, view, log, closed_on_entry, callback_invoked>>
fbmVars   == <<fbm, gl, sel, glrun>>
camVars   == <<cam, cam_hist>>
sceneVars == <<objects, heap, geometries, meshes, scene_hist>>
vars      == <<winVars, fbmVars, camVars, sceneVars>>

----------------------------------------------------------------------------
(* Bounds of the model *)

\* The event queue holds at most MaxQueue events at a time.
MaxQueue == 2
\* A camera asks for at most MaxPasses passes per frame.
MaxPasses == 2
\* Milliseconds elapsed in a frame range over 0..MaxElapsed.
MaxElapsed == 3
\* The user's callback makes at most MaxUserCalls logged calls per frame.
MaxUserCalls == 1
\* A camera goes through at most MaxCamOps operations after its construction.
MaxCamOps == 2
\* At most MaxObjects objects are ever allocated for a scene.
MaxObjects == 3
\* At most MaxObjOps methods of Object are called on the objects of a scene.
MaxObjOps == 3
\* add_quad is called with up to MaxSubdivs subdivisions a side, and with 4.
MaxSubdivs == 2
\* The callbacks append at most MaxAppends events while the queue is handed off.
MaxAppends == 3

----------------------------------------------------------------------------
(* Events (event::Event as used in window.rs:579-611) *)

Ev(kind, key, x, y) == [kind |-> kind, key |-> key, x |-> x, y |-> y]
NoEv == Ev("none", "", 0, 0)

Keys         == {"Escape", "Up"}
KeyActions   == {"Press", "Release", "Repeat"}
Buttons      == {"Left"}
ButtonActions == {"Press", "Release"}
Sizes        == {<<2, 2>>}
CursorPoss   == {<<1, 1>>}
ScrollOffs   == {<<0, 1>>}

DEFAULT_WIDTH  == 800
DEFAULT_HEIGHT == 600

IsEscapeRelease(e) == e.kind = "KeyReleased" /\ e.key = "Escape"

----------------------------------------------------------------------------
(* The graphics context and the framebuffer manager *)

\* Handles the GL implementation hands out: object names start at 1 in each
\* name space (framebuffers, textures).
FboHandle    == 1
Screen       == [kind |-> "Screen", texture |-> 0, depth |-> 0]
Offscreen(t, d) == [kind |-> "Offscreen", texture |-> t, depth |-> d]
\* The window's post-processing target: the first two textures generated.
PostProcessTarget == Offscreen(1, 2)
\* A second offscreen target, for the manager used on its own.
OtherTarget  == Offscreen(3, 4)
Targets      == {Screen, PostProcessTarget, OtherTarget}
\* The texture names of the offscreen targets.
TextureNames == UNION {{t.texture, t.depth} : t \in Targets \ {Screen}}
\* The texture units the core makes active: TEXTURE0 and TEXTURE1.
TextureUnits == {0, 1}
\* The name of a texture of the textures manager, as objects bind it.
ObjectTexture == 5
\* Sizes a render target is given: the window's first size and the resized ones.
TargetSizes  == Sizes \cup {<<DEFAULT_WIDTH, DEFAULT_HEIGHT>>}

texture_id(t) == IF t.kind = "Screen" THEN 0 ELSE t.texture
depth_id(t)   == IF t.kind = "Screen" THEN 0 ELSE t.depth

\* A manager state threaded through a call: the manager's fields, the GL
\* context and the GL calls issued so far by the call.
Mgr(f, g, c) == [fbm |-> f, gl |-> g, calls |-> c]

\* gl::BindFramebuffer(FRAMEBUFFER, fbo)
GlBindFramebuffer(g, fbo) == [g EXCEPT !.bound = fbo]
\* gl::FramebufferTexture2D(FRAMEBUFFER, attachment, TEXTURE_2D, tex, 0): attaches
\* to the framebuffer bound now; an error when that is the default framebuffer.
GlFramebufferTexture2D(g, att, tex) ==
    IF g.bound = 0 THEN [g EXCEPT !.err = TRUE]
    ELSE IF att = "color" THEN [g EXCEPT !.color = tex]
    ELSE [g EXCEPT !.depth = tex]

\* FramebuffersManager::new, and the GL context it leaves: the screen bound,
\* nothing attached, the viewport and the textures at the window's first size.
\* (The window specifications follow the sizes update_viewport sets in view.)
FramebuffersManagerNew ==
    Mgr([curr_fbo |-> 0, curr_color |-> 0, curr_depth |-> 0, fbo |-> FboHandle],
        [bound |-> 0, color |-> 0, depth |-> 0, err |-> FALSE,
         viewport |-> <<DEFAULT_WIDTH, DEFAULT_HEIGHT>>,
         tex_size |-> [t \in TextureNames \cup {0} |-> <<DEFAULT_WIDTH, DEFAULT_HEIGHT>>],
         active |-> 1, tex2d |-> [u \in TextureUnits |-> 0],
         textures |-> TextureNames, buffers |-> {}],
        <<>>)

\* What the GL context holds about framebuffers: the one bound, and the
\* attachments of the offscreen one.
Attachments(g) == [bound |-> g.bound, color |-> g.color, depth |-> g.depth]

\* gl::ActiveTexture(TEXTUREu)
GlActiveTexture(g, u) == [g EXCEPT !.active = u]
\* gl::BindTexture(TEXTURE_2D, tex): on the active texture unit
GlBindTexture(g, tex) == [g EXCEPT !.tex2d[g.active] = tex]
\* gl::TexImage2D(TEXTURE_2D, 0, .., w, h, ..): new storage of w x h for the
\* texture bound on the active unit
GlTexImage2D(g, w, h) == [g EXCEPT !.tex_size[g.tex2d[g.active]] = <<w, h>>]

\* A mutation of resize: the Offscreen arm generates the two textures anew, as
\* new_render_target does.
resizeRegenerate(g, target, w, h) ==
    IF target.kind = "Screen"
    THEN [gl |-> [g EXCEPT !.viewport = <<w, h>>], target |-> target]
    ELSE LET fresh == IF target = PostProcessTarget THEN OtherTarget
                      ELSE PostProcessTarget
             g1 == GlBindTexture(GlTexImage2D(GlBindTexture(g, fresh.texture), w, h), 0)
             g2 == GlBindTexture(GlTexImage2D(GlBindTexture(g1, fresh.depth), w, h), 0)
         IN  [gl |-> g2, target |-> fresh]

\* RenderTarget::resize: the GL context and the target (self) after the call.
resize(g, target, w, h) ==
    IF target.kind = "Screen"
    THEN [gl |-> [g EXCEPT !.viewport = <<w, h>>], target |-> target]
    ELSE LET g1 == GlBindTexture(GlTexImage2D(GlBindTexture(g, target.texture), w, h), 0)
             g2 == GlBindTexture(GlTexImage2D(GlBindTexture(g1, target.depth), w, h), 0)
         IN  [gl |-> g2, target |-> target]

\* A mutation of do_select: the bind is issued whether or not fbo is bound.
DoSelectAlways(m, fbo) ==
    Mgr([m.fbm EXCEPT !.curr_fbo = fbo],
        GlBindFramebuffer(m.gl, fbo),
        Append(m.calls, <<"BindFramebuffer", fbo>>))

\* FramebuffersManager::do_select
do_select(m, fbo) ==
    IF m.fbm.curr_fbo # fbo
    THEN Mgr([m.fbm EXCEPT !.curr_fbo = fbo],
             GlBindFramebuffer(m.gl, fbo),
             Append(m.calls, <<"BindFramebuffer", fbo>>))
    ELSE m

\* The color half of select's Offscreen arm.
AttachColor(m, o) ==
    IF m.fbm.curr_color # o.texture
    THEN Mgr([m.fbm EXCEPT !.curr_color = o.texture],
             GlFramebufferTexture2D(m.gl, "color", o.texture),
             Append(m.calls, <<"FramebufferTexture2D:color", o.texture>>))
    ELSE m

\* The depth half of select's Offscreen arm.
AttachDepth(m, o) ==
    IF m.fbm.curr_depth # o.depth
    THEN Mgr([m.fbm EXCEPT !.curr_depth = o.depth],
             GlFramebufferTexture2D(m.gl, "depth", o.depth),
             Append(m.calls, <<"FramebufferTexture2D:depth", o.depth>>))
    ELSE m

\* A mutation of select: the Offscreen arm attaches the textures before it
\* binds the framebuffer.
selectAttachFirst(m, target) ==
    IF target.kind = "Screen"
    THEN LET m1 == do_select(m, 0)
         IN  Mgr([m1.fbm EXCEPT !.curr_color = 0, !.curr_depth = 0], m1.gl, m1.calls)
    ELSE do_select(AttachDepth(AttachColor(m, target), target), m.fbm.fbo)

\* FramebuffersManager::select
select(m, target) ==
    IF target.kind = "Screen"
    THEN LET m1 == do_select(m, 0)
         IN  Mgr([m1.fbm EXCEPT !.curr_color = 0, !.curr_depth = 0], m1.gl, m1.calls)
    ELSE AttachDepth(AttachColor(do_select(m, m.fbm.fbo), target), target)

----------------------------------------------------------------------------
(* The frame log: one entry per call the window makes on a collaborator *)

\* The calls the window makes on its camera.
CameraOps == {"camera.handle_event", "camera.update", "start_pass",
              "camera.upload:lines", "camera.upload:object", "render_complete"}
NoCamera  == [id |-> "none", passes |-> 0]

\* op: the call; by: "loop" (render_loop's own step), "user" (made from the
\* user's callback) or "setup"; ev: the event concerned; n: an index (event
\* position in the batch, pass number, sleep length); ok: the user handler's
\* answer; fbo: the framebuffer bound in the GL context at the call; cam: for
\* a call on self.camera, the camera that self.camera refers to at the call.
L(op, by, ev, n, ok, fbo) ==
    [op |-> op, by |-> by, ev |-> ev, n |-> n, ok |-> ok, fbo |-> fbo,
     cam |-> IF op \in CameraOps THEN camera ELSE NoCamera]

NoLimit  == [some |-> FALSE, ms |-> 0]
Some(ms) == [some |-> TRUE, ms |-> ms]
\* Arguments of set_framerate_limit: None, or Some(f) with f frames per second.
FpsChoices == {[some |-> FALSE, f |-> 0], [some |-> TRUE, f |-> 400]}

ArcBall == [id |-> "arcball", passes |-> 1]
Cameras == {ArcBall} \cup {[id |-> "user", passes |-> n] : n \in {0, MaxPasses}}

\* A dispatch state threaded through poll_events.
Disp(c, v, l) == [close |-> c, view |-> v, log |-> l]

\* A mutation of update_viewport: the offscreen target is resized only while
\* an effect is attached.
update_viewportIfEffect(v, w, h) ==
    [v EXCEPT !.scissor = <<w, h>>, !.viewport = <<w, h>>,
              !.target_size = IF post_processing THEN <<w, h>> ELSE @]

\* Window::update_viewport
update_viewport(v, w, h) ==
    [v EXCEPT !.scissor = <<w, h>>, !.viewport = <<w, h>>, !.target_size = <<w, h>>]

\* A mutation of the proceed arm: the camera gets the event before the default
\* handling, and also gets key-released(escape).
ProceedCameraFirst(d, e, i, by) ==
    LET d1 == [d EXCEPT !.log = Append(@, L("camera.handle_event", by, e, i, TRUE, gl.bound))]
    IN  IF IsEscapeRelease(e)
        THEN [d1 EXCEPT !.close = TRUE,
                        !.log = Append(@, L("default_close", by, e, i, TRUE, gl.bound))]
        ELSE IF e.kind = "FramebufferSize"
        THEN [d1 EXCEPT !.view = update_viewport(@, e.x, e.y),
                        !.log = Append(@, L("update_viewport", by, e, i, TRUE, gl.bound))]
        ELSE d1

\* poll_events, the arm taken when the user handler returned true
\* (window.rs:446-459): close and continue, or resize, then the camera.
Proceed(d, e, i, by) ==
    IF IsEscapeRelease(e)
    THEN [d EXCEPT !.close = TRUE,
                   !.log = Append(@, L("default_close", by, e, i, TRUE, gl.bound))]
    ELSE LET d1 == IF e.kind = "FramebufferSize"
                   THEN [d EXCEPT !.view = update_viewport(@, e.x, e.y),
                                  !.log = Append(@, L("update_viewport", by, e, i, TRUE, gl.bound))]
                   ELSE d
         IN  [d1 EXCEPT !.log = Append(@, L("camera.handle_event", by, e, i, TRUE, gl.bound))]

\* A mutation of the loop body: the handler's answer is ignored.
DispatchOneIgnoreAnswer(d, e, i, ans, by) ==
    Proceed([d EXCEPT !.log = Append(@, L("handler", by, e, i, ans, gl.bound))], e, i, by)

\* poll_events, one iteration of the loop over the batch (window.rs:444-461).
DispatchOne(d, e, i, ans, by) ==
    LET d1 == [d EXCEPT !.log = Append(@, L("handler", by, e, i, ans, gl.bound))]
    IN  IF ans THEN Proceed(d1, e, i, by) ELSE d1

\* A mutation of the iteration order: the batch is walked from its end.
BatchOrderReversed(n) == [i \in 1..n |-> n + 1 - i]

\* The order in which es.iter() visits the batch: first to last.
BatchOrder(n) == [i \in 1..n |-> i]

RECURSIVE Dispatch(_, _, _, _, _)
\* poll_events, the read section: the loop from its k-th iteration on.
Dispatch(d, batch, h, by, k) ==
    IF k > Len(batch) THEN d
    ELSE LET i == BatchOrder(Len(batch))[k]
         IN  Dispatch(DispatchOne(d, batch[i], i, h[i], by), batch, h, by, k + 1)

\* poll_events, the write section: self.events.write(|c| c.clear())
Clear(q) == <<>>

\* Window::poll_events with a handler answering h[i] for the i-th event.
poll_events(d, batch, h, by) ==
    LET d0 == [d EXCEPT !.log = Append(@, L("poll_events", by, NoEv, Len(batch), TRUE, gl.bound))]
        d1 == Dispatch(d0, batch, h, by, 1)
    IN  [d1 EXCEPT !.log = Append(@, L("clear", by, NoEv, Len(Clear(batch)), TRUE, gl.bound))]

\* The handler render_loop passes: |_, _| true
AlwaysTrue(n) == [i \in 1..n |-> TRUE]

----------------------------------------------------------------------------
(* Window::draw (window.rs:629-700), step by step *)

\* A draw state: the manager state and the frame log.
Dr(m, l) == [m |-> m, log |-> l]
Logged(s, op, n) == [s EXCEPT !.log = Append(@, L(op, "loop", NoEv, n, TRUE, s.m.gl.bound))]

\* self.camera.update(&self.window)
StepCameraUpdate(s) == Logged(s, "camera.update", 0)

\* window.rs:637-643: the offscreen target with an effect attached, else the screen
StepSelectTarget(s) ==
    IF post_processing
    THEN Logged([s EXCEPT !.m = select(s.m, PostProcessTarget)], "select_target", 1)
    ELSE Logged([s EXCEPT !.m = select(s.m, Screen)], "select_target", 0)

\* A mutation of the pass body: the object-shading program comes first.
OnePassObjectFirst(s, pass) ==
    LET s1 == Logged(s,  "start_pass", pass)
        s2 == Logged(s1, "select:ObjectShader", pass)
        s3 == Logged(s2, "camera.upload:object", pass)
        s4 == Logged(s3, "select:LinesShader", pass)
        s5 == Logged(s4, "camera.upload:lines", pass)
    IN  Logged(s5, "render_scene", pass)

\* window.rs:647-657: one camera pass
OnePass(s, pass) ==
    LET s1 == Logged(s,  "start_pass", pass)
        s2 == Logged(s1, "select:LinesShader", pass)
        s3 == Logged(s2, "camera.upload:lines", pass)
        s4 == Logged(s3, "select:ObjectShader", pass)
        s5 == Logged(s4, "camera.upload:object", pass)
    IN  Logged(s5, "render_scene", pass)

RECURSIVE Passes(_, _, _)
\* window.rs:646: for pass in range(0u, self.camera.num_passes())
Passes(s, pass, n) ==
    IF pass >= n THEN s ELSE Passes(OnePass(s, pass), pass + 1, n)

\* self.camera.render_complete(&self.window)
StepRenderComplete(s) == Logged(s, "render_complete", 0)

\* The time step draw hands to the effect's update, in milliseconds: 0.016 s
EffectDt == 16

\* p.update(0.016, w, h, znear, zfar): w and h are the window's size and the
\* clip planes are those of self.camera.
EffectUpdate(s) ==
    [s EXCEPT !.log = Append(@, [L("effect.update", "loop",
                                   Ev("update", "", win_size[1], win_size[2]),
                                   EffectDt, TRUE, s.m.gl.bound)
                                 EXCEPT !.cam = camera])]

\* p.draw(&mut self.shaders_manager, &self.post_process_render_target)
EffectDraw(s) ==
    [s EXCEPT !.log = Append(@, L("effect.draw", "loop",
                                  Ev("draw", "", texture_id(PostProcessTarget),
                                     depth_id(PostProcessTarget)),
                                  0, TRUE, s.m.gl.bound))]

\* A mutation of the post-processing arm: the screen is not selected again.
StepPostProcessNoRebind(s) ==
    IF post_processing
    THEN EffectDraw(EffectUpdate(s))
    ELSE s

\* window.rs:665-680: with an effect attached, the screen again, then the effect
StepPostProcess(s) ==
    IF post_processing
    THEN LET s2 == Logged([s EXCEPT !.m = select(s.m, Screen)], "select_screen", 0)
         IN  EffectDraw(EffectUpdate(s2))
    ELSE s

\* self.window.swap_buffers()
StepSwap(s) == Logged(s, "swap_buffers", 0)

\* A mutation of the frame-rate cap: the test is elapsed <= ms.
StepSleepInclusive(s, elapsed) ==
    IF max_ms_per_frame.some
    THEN LET s1 == Logged(s, "precise_time_ns", elapsed)
         IN  IF elapsed <= max_ms_per_frame.ms
             THEN Logged(s1, "sleep", max_ms_per_frame.ms - elapsed)
             ELSE s1
    ELSE s

\* window.rs:686-694: the frame-rate cap.  With a cap the clock is read, which
\* gives the whole milliseconds elapsed, and timer.sleep is called when that is
\* below the budget.
StepSleep(s, elapsed) ==
    IF max_ms_per_frame.some
    THEN LET s1 == Logged(s, "precise_time_ns", elapsed)
         IN  IF elapsed < max_ms_per_frame.ms
             THEN Logged(s1, "sleep", max_ms_per_frame.ms - elapsed)
             ELSE s1
    ELSE s

\* A mutation of draw: the buffers are swapped before the post-processing.
drawSwapEarly(s, elapsed) ==
    StepSleep(StepPostProcess(StepSwap(StepRenderComplete(
        Passes(StepSelectTarget(StepCameraUpdate(s)), 0, camera.passes)))), elapsed)

\* Window::draw
draw(s, elapsed) ==
    StepSleep(StepSwap(StepPostProcess(StepRenderComplete(
        Passes(StepSelectTarget(StepCameraUpdate(s)), 0, camera.passes)))), elapsed)

----------------------------------------------------------------------------
(* The native callbacks registered in do_spawn (window.rs:577-611) *)

\* glfw runs the callbacks from inside glfw::poll_events(), which render_loop
\* calls and which a user driving the window by hand calls too.
CallbacksMayRun == pc \in {"glfw_poll", "user_glfw_poll"} /\ Len(events) < MaxQueue

\* The events collector: collector.write(|c| c.push(e))
Push(e) == events' = Append(events, e)

FramebufferSizeCallback(w, h) ==
    /\ CallbacksMayRun
    /\ Push(Ev("FramebufferSize", "", w, h))
    /\ win_size' = <<w, h>>
    /\ UNCHANGED <<pc, should_close, post_processing, max_ms_per_frame, camera, view, log, closed_on_entry, callback_invoked>>
    /\ UNCHANGED <<fbmVars, camVars, sceneVars>>

\* The event the key callback makes of a native action (window.rs:585-590)
key_callback(key, action) ==
    IF action = "Press" THEN Ev("KeyPressed", key, 0, 0) ELSE Ev("KeyReleased", key, 0, 0)

\* The event the mouse button callback makes of a native action (window.rs:595-600)
mouse_button_callback(button, action) ==
    IF action = "Press" THEN Ev("ButtonPressed", button, 0, 0)
    ELSE Ev("ButtonReleased", button, 0, 0)

KeyCallback(key, action) ==
    /\ CallbacksMayRun
    /\ Push(key_callback(key, action))
    /\ UNCHANGED <<pc, should_close, post_processing, max_ms_per_frame, camera, win_size, view, log, closed_on_entry, callback_invoked>>
    /\ UNCHANGED <<fbmVars, camVars, sceneVars>>

MouseButtonCallback(button, action) ==
    /\ CallbacksMayRun
    /\ Push(mouse_button_callback(button, action))
    /\ UNCHANGED <<pc, should_close, post_processing, max_ms_per_frame, camera, win_size, view, log, closed_on_entry, callback_invoked>>
    /\ UNCHANGED <<fbmVars, camVars, sceneVars>>

CursorPosCallback(x, y) ==
    /\ CallbacksMayRun
    /\ Push(Ev("CursorPos", "", x, y))
    /\ UNCHANGED <<pc, should_close, post_processing, max_ms_per_frame, camera, win_size, view, log, closed_on_entry, callback_invoked>>
    /\ UNCHANGED <<fbmVars, camVars, sceneVars>>

ScrollCallback(x, y) ==
    /\ CallbacksMayRun
    /\ Push(Ev("Scroll", "", x, y))
    /\ UNCHANGED <<pc, should_close, post_processing, max_ms_per_frame, camera, win_size, view, log, closed_on_entry, callback_invoked>>
    /\ UNCHANGED <<fbmVars, camVars, sceneVars>>

----------------------------------------------------------------------------
(* The window's public operations, called from the setup callback and from *)
(* the per-frame callback                                                  *)

InUserCode == pc \in {"setup", "in_callback"}

UserCalls == Cardinality({i \in 1..Len(log) : log[i].by = "set_camera"})

\* Window::close
Close ==
    /\ InUserCode
    /\ should_close' = TRUE
    /\ UNCHANGED <<pc, events, post_processing, max_ms_per_frame, camera, win_size, view, log, closed_on_entry, callback_invoked>>
    /\ UNCHANGED <<fbmVars, camVars, sceneVars>>

\* Window::set_post_processing_effect
SetPostProcessingEffect(effect) ==
    /\ InUserCode
    /\ post_processing' = effect
    /\ UNCHANGED <<pc, should_close, events, max_ms_per_frame, camera, win_size, view, log, closed_on_entry, callback_invoked>>
    /\ UNCHANGED <<fbmVars, camVars, sceneVars>>

\* Window::set_framerate_limit
SetFramerateLimit(fps) ==
    /\ InUserCode
    /\ fps.some => fps.f # 0
    /\ max_ms_per_frame' = IF fps.some THEN Some(1000 \div fps.f) ELSE NoLimit
    /\ UNCHANGED <<pc, should_close, events, post_processing, camera, win_size, view, log, closed_on_entry, callback_invoked>>
    /\ UNCHANGED <<fbmVars, camVars, sceneVars>>


\* A mutation of set_camera: the resize is delivered before the assignment,
\* to the camera that is being replaced.
SetCameraEventFirst(c) ==
    /\ InUserCode
    /\ UserCalls < MaxUserCalls
    /\ camera' = c
    /\ log' = Append(log, L("camera.handle_event", "set_camera",
                            Ev("FramebufferSize", "", win_size[1], win_size[2]),
                            0, TRUE, gl.bound))
    /\ UNCHANGED <<pc, should_close, events, post_processing, max_ms_per_frame,
                   win_size, view, closed_on_entry, callback_invoked>>
    /\ UNCHANGED <<fbmVars, camVars, sceneVars>>

\* Window::set_camera: self.camera = camera, then self.camera.handle_event(..)
SetCamera(c) ==
    /\ InUserCode
    /\ UserCalls < MaxUserCalls
    /\ camera' = c
    /\ log' = Append(log, [L("camera.handle_event", "set_camera",
                             Ev("FramebufferSize", "", win_size[1], win_size[2]),
                             0, TRUE, gl.bound) EXCEPT !.cam = c])
    /\ UNCHANGED <<pc, should_close, events, post_processing, max_ms_per_frame,
                   win_size, view, closed_on_entry, callback_invoked>>
    /\ UNCHANGED <<fbmVars, camVars, sceneVars>>

\* The effect of Window::poll_events on the window.
PollEvents(h, by) ==
    LET d == poll_events(Disp(should_close, view, log), events, h, by)
    IN  /\ should_close' = d.close
        /\ view' = d.view
        /\ log' = d.log
        /\ events' = Clear(events)

----------------------------------------------------------------------------
(* A user driving the window by hand: glfw::poll_events() and then         *)
(* window.poll_events(handler), over and over                              *)

\* The setup callback starts polling by hand.
UserLoopEnter ==
    /\ pc = "setup"
    /\ pc' = "user_glfw_poll"
    /\ log' = <<>>
    /\ UNCHANGED <<should_close, events, post_processing, max_ms_per_frame,
                   camera, win_size, view, closed_on_entry, callback_invoked>>
    /\ UNCHANGED <<fbmVars, camVars, sceneVars>>

\* Window::poll_events called by the user with a handler of their own
UserPollEvents(h) ==
    /\ pc = "user_glfw_poll"
    /\ pc' = "user_polled"
    /\ PollEvents(h, "user")
    /\ UNCHANGED <<post_processing, max_ms_per_frame, camera,
                   win_size, closed_on_entry, callback_invoked>>
    /\ UNCHANGED <<fbmVars, camVars, sceneVars>>

\* The user calls glfw::poll_events() again.
UserGlfwPoll ==
    /\ pc = "user_polled"
    /\ pc' = "user_glfw_poll"
    /\ log' = <<>>
    /\ UNCHANGED <<should_close, events, post_processing, max_ms_per_frame,
                   camera, win_size, view, closed_on_entry, callback_invoked>>
    /\ UNCHANGED <<fbmVars, camVars, sceneVars>>

----------------------------------------------------------------------------
(* Window::render_loop (window.rs:470-484) *)

\* The setup callback calls render_loop.
RenderLoopEnter ==
    /\ pc = "setup"
    /\ pc' = "loop_head"
    /\ closed_on_entry' = should_close
    /\ UNCHANGED <<should_close, events, post_processing, max_ms_per_frame,
                   camera, win_size, view, log, callback_invoked>>
    /\ UNCHANGED <<fbmVars, camVars, sceneVars>>

\* A mutation of the loop test: the loop goes on whatever the flag.
LoopTestIgnoresFlag == TRUE

\* while !self.window.should_close()
LoopTest == ~should_close

\* The loop test fails: render_loop returns.
LoopExit ==
    /\ pc = "loop_head"
    /\ ~LoopTest
    /\ pc' = "returned"
    /\ UNCHANGED <<should_close, events, post_processing, max_ms_per_frame,
                   camera, win_size, view, log, closed_on_entry,
                   callback_invoked>>
    /\ UNCHANGED <<fbmVars, camVars, sceneVars>>

\* The loop test holds: a frame starts with glfw::poll_events().
FrameStart ==
    /\ pc = "loop_head"
    /\ LoopTest
    /\ pc' = "glfw_poll"
    /\ log' = <<L("glfw::poll_events", "loop", NoEv, 0, TRUE, gl.bound)>>
    /\ UNCHANGED <<should_close, events, post_processing, max_ms_per_frame,
                   camera, win_size, view, closed_on_entry,
                   callback_invoked>>
    /\ UNCHANGED <<fbmVars, camVars, sceneVars>>

\* glfw::poll_events() returns and callback(self) is entered.
CallbackEnter ==
    /\ pc = "glfw_poll"
    /\ pc' = "in_callback"
    /\ log' = Append(log, L("callback", "loop", NoEv, 0, TRUE, gl.bound))
    /\ callback_invoked' = TRUE
    /\ UNCHANGED <<should_close, events, post_processing, max_ms_per_frame,
                   camera, win_size, view, closed_on_entry>>
    /\ UNCHANGED <<fbmVars, camVars, sceneVars>>

\* callback(self) returns.
CallbackReturn ==
    /\ pc = "in_callback"
    /\ pc' = "poll_events"
    /\ UNCHANGED <<should_close, events, post_processing, max_ms_per_frame,
                   camera, win_size, view, log, closed_on_entry,
                   callback_invoked>>
    /\ UNCHANGED <<fbmVars, camVars, sceneVars>>

\* self.poll_events(|_, _| true)
LoopPollEvents ==
    /\ pc = "poll_events"
    /\ pc' = "draw"
    /\ PollEvents(AlwaysTrue(Len(events)), "loop")
    /\ UNCHANGED <<post_processing, max_ms_per_frame, camera,
                   win_size, closed_on_entry, callback_invoked>>
    /\ UNCHANGED <<fbmVars, camVars, sceneVars>>

\* self.draw(&mut curr, &mut timer), elapsed ms after the previous frame's end
Draw(elapsed) ==
    /\ pc = "draw"
    /\ pc' = "loop_head"
    /\ LET r == draw(Dr(Mgr(fbm, gl, <<>>), log), elapsed)
       IN  /\ fbm' = r.m.fbm
           /\ gl'  = r.m.gl
           /\ log' = r.log
    /\ UNCHANGED <<should_close, events, post_processing, max_ms_per_frame,
                   camera, win_size, view, closed_on_entry,
                   callback_invoked, sel, glrun>>
    /\ UNCHANGED <<camVars, sceneVars>>

----------------------------------------------------------------------------
(* Initial states *)

NoTarget == [kind |-> "none", texture |-> 0, depth |-> 0]
\* No statement.
NoStmt == [call |-> "none", line |-> 0, checked |-> TRUE]
\* glrun when no core operation is issuing graphics calls and no error is flagged.
GlIdle == [op |-> "idle", pc |-> 0, pending |-> FALSE, aborted |-> FALSE,
           last |-> NoStmt, stale |-> FALSE]
\* sel.resized when the last call on the manager's side was not a resize.
NoResize == [before |-> NoTarget, after |-> NoTarget, size |-> <<0, 0>>, bound_before |-> 0]

\* The window as do_spawn builds it (window.rs:560-616).
WinInit ==
    /\ pc = "setup"
    /\ should_close = FALSE
    /\ events = <<>>
    /\ post_processing = FALSE
    /\ max_ms_per_frame = NoLimit
    /\ camera = ArcBall
    /\ win_size = <<DEFAULT_WIDTH, DEFAULT_HEIGHT>>
    /\ view = [scissor     |-> <<DEFAULT_WIDTH, DEFAULT_HEIGHT>>,
               viewport    |-> <<DEFAULT_WIDTH, DEFAULT_HEIGHT>>,
               target_size |-> <<DEFAULT_WIDTH, DEFAULT_HEIGHT>>]
    /\ log = <<L("camera.handle_event", "setup",
                 Ev("FramebufferSize", "", DEFAULT_WIDTH, DEFAULT_HEIGHT), 0, TRUE, 0)>>
    /\ closed_on_entry = FALSE
    /\ callback_invoked = FALSE

\* The manager as FramebuffersManager::new builds it.
\* sel.drop when no render target was dropped.
NoDrop == [target |-> NoTarget, textures |-> {}, buffers |-> {}]
\* sel when no call was made on the manager.
SelNew == [prev_target |-> NoTarget, last_target |-> NoTarget,
           last_calls |-> <<>>, prev_fbm |-> FramebuffersManagerNew.fbm,
           prev_att |-> Attachments(FramebuffersManagerNew.gl),
           resized |-> NoResize, dropped |-> {}, drop |-> NoDrop]

FbmInit ==
    /\ fbm = FramebuffersManagerNew.fbm
    /\ gl  = FramebuffersManagerNew.gl
    /\ sel = SelNew
    /\ glrun = GlIdle

CamIdle == cam = <<>> /\ cam_hist = <<>>
NoObject == [data |-> 0, mesh |-> 0]

\* Mesh::new: a Mesh allocation.  src tells where the geometry comes from;
\* edits and uploads count what modify_mesh did to it.
MeshNew(src, vertices, triangles, normals, tex_coords) ==
    [src |-> src, vertices |-> vertices, triangles |-> triangles,
     normals |-> normals, tex_coords |-> tex_coords, edits |-> 0, uploads |-> 0]

\* A mesh whose geometry comes from a file or from the built-in loader: its
\* buffers are not looked into.
MeshOf(kind, key) == MeshNew(<<kind, key>>, <<>>, <<>>, <<>>, <<>>)

\* The names the add_<built-in> operations look up.
BuiltinNames == <<"cube", "sphere", "cone", "cylinder", "capsule">>

\* builtins::loader::load() when it registers the names of set S: one mesh each.
LoaderLoad(S) ==
    LET names == SelectSeq(BuiltinNames, LAMBDA n : n \in S)
    IN  [geometries |-> [k \in S |-> CHOOSE i \in 1..Len(names) : names[i] = k],
         meshes     |-> [i \in 1..Len(names) |-> MeshOf("builtin", names[i])]]

\* A new window has no object and the built-in geometries (window.rs:562-567).
SceneNew(S) ==
    /\ objects = <<>>
    /\ heap = <<>>
    /\ geometries = LoaderLoad(S).geometries
    /\ meshes = LoaderLoad(S).meshes
    /\ scene_hist = [op |-> "new", key |-> <<>>, arg |-> NoObject, before |-> <<>>,
                     failed |-> FALSE, calls |-> <<>>, n |-> 0]

\* The window whose loader registered every built-in geometry.
SceneIdle == SceneNew({BuiltinNames[i] : i \in 1..Len(BuiltinNames)})

Init == WinInit /\ FbmInit /\ CamIdle /\ SceneIdle

NativeCallbacks ==
    \/ \E s \in Sizes : FramebufferSizeCallback(s[1], s[2])
    \/ \E k \in Keys, a \in KeyActions : KeyCallback(k, a)
    \/ \E b \in Buttons, a \in ButtonActions : MouseButtonCallback(b, a)
    \/ \E p \in CursorPoss : CursorPosCallback(p[1], p[2])
    \/ \E o \in ScrollOffs : ScrollCallback(o[1], o[2])

\* The callbacks that run under render_loop: one event for each arm of the
\* dispatch (a resize, the release of escape, the release of another key, a
\* cursor move).
LoopCallbacks ==
    \/ \E s \in Sizes : FramebufferSizeCallback(s[1], s[2])
    \/ \E k \in Keys : KeyCallback(k, "Release")
    \/ \E p \in CursorPoss : CursorPosCallback(p[1], p[2])

\* The window under render_loop.
Next ==
    \/ LoopCallbacks
    \/ Close
    \/ \E b \in BOOLEAN : SetPostProcessingEffect(b)
    \/ \E f \in FpsChoices : SetFramerateLimit(f)
    \/ \E c \in Cameras : SetCamera(c)
    \/ RenderLoopEnter
    \/ LoopExit
    \/ FrameStart
    \/ CallbackEnter
    \/ CallbackReturn
    \/ LoopPollEvents
    \/ \E e \in 0..MaxElapsed : Draw(e)

Spec == Init /\ [][Next]_vars

\* The window polled by hand with arbitrary handlers.
NextPoll ==
    \/ NativeCallbacks
    \/ UserLoopEnter
    \/ \E h \in [1..Len(events) -> BOOLEAN] : UserPollEvents(h)
    \/ UserGlfwPoll

SpecPoll == Init /\ [][NextPoll]_vars

----------------------------------------------------------------------------
(* Reading the frame log *)

IsLoopEntry(e) == e.by = "loop"
LoopLog == SelectSeq(log, IsLoopEntry)
CountIn(ll, op) == Cardinality({i \in 1..Len(ll) : ll[i].op = op})
Count(op) == CountIn(LoopLog, op)

\* The log is that of a frame of render_loop (and not of setup or of polling by hand).
InFrame   == log # <<>> /\ log[1].op = "glfw::poll_events"
\* The frame has run to its end.
FrameDone == InFrame /\ pc \in {"loop_head", "returned"}

DrainOps == {"poll_events", "handler", "default_close", "update_viewport",
             "camera.handle_event", "clear"}
PassOps  == {"start_pass", "select:LinesShader", "camera.upload:lines",
             "select:ObjectShader", "camera.upload:object", "render_scene"}
EffectOps == {"select_screen", "effect.update", "effect.draw"}

Phase(op) ==
    CASE op = "glfw::poll_events" -> 1
      [] op = "callback"          -> 2
      [] op \in DrainOps          -> 3
      [] op = "camera.update"     -> 4
      [] op = "select_target"     -> 5
      [] op \in PassOps           -> 6
      [] op = "render_complete"   -> 7
      [] op \in EffectOps         -> 8
      [] op = "swap_buffers"      -> 9
      [] op = "precise_time_ns"   -> 10
      [] op = "sleep"             -> 11

\* Steps every frame takes exactly once.
MandatorySteps == {"glfw::poll_events", "callback", "poll_events", "clear",
                   "camera.update", "select_target", "render_complete", "swap_buffers"}

----------------------------------------------------------------------------
(* C1: in every frame of render_loop the steps come in the order native    *)
(* poll, user callback, drain of the queue, Camera.update, target          *)
(* selection, camera passes, render_complete, optional post-processing,    *)
(* swap_buffers, optional sleep, each once; the callback precedes every    *)
(* dispatch of a queued event and Camera.update finds the queue cleared.   *)
C1_FrameOrder ==
    InFrame =>
      LET ll == LoopLog
          n  == Len(ll)
      IN
      /\ \A i \in 1..(n - 1) : Phase(ll[i].op) <= Phase(ll[i + 1].op)
      /\ \A op \in MandatorySteps \cup EffectOps \cup {"sleep"} : CountIn(ll, op) <= 1
      /\ \A i \in 1..n :
            ll[i].op = "clear" => \A j \in (i + 1)..n : ll[j].op \notin DrainOps
      /\ CountIn(ll, "camera.update") = 1 => CountIn(ll, "clear") = 1 /\ events = <<>>
      /\ pc = "draw" => events = <<>>
      /\ FrameDone =>
           /\ \A op \in MandatorySteps : CountIn(ll, op) = 1
           /\ CountIn(ll, "render_scene") = camera.passes
           /\ \A op \in EffectOps : CountIn(ll, op) = (IF post_processing THEN 1 ELSE 0)
           /\ CountIn(ll, "sleep") = 1 => max_ms_per_frame.some

\* A finished frame with two passes, an effect, a sleep and a dispatched event.
C1_Witness ==
    /\ FrameDone
    /\ post_processing
    /\ camera.passes = 2
    /\ Count("sleep") = 1
    /\ Count("handler") >= 1

(* C4: render_loop starts a frame iff the close flag is false at the loop  *)
(* head; the flag, once set, stays set, the frame in progress runs through *)
(* all its steps and the only step left at the loop head is the return;    *)
(* with the flag set on entry the callback is never invoked.               *)
C4_LoopTermination ==
    /\ [][ /\ (pc = "loop_head" /\ should_close)  => pc' = "returned"
           /\ (pc = "loop_head" /\ ~should_close) => pc' = "glfw_poll"
           /\ should_close => should_close'
           /\ pc = "glfw_poll"   => pc' \in {"glfw_poll", "in_callback"}
           /\ pc = "in_callback" => pc' \in {"in_callback", "poll_events"}
           /\ pc = "poll_events" => pc' = "draw"
           /\ pc = "draw"        => pc' = "loop_head"
           /\ pc = "returned"    => pc' = "returned" ]_vars
    /\ [](closed_on_entry => ~callback_invoked)

\* The loop has returned after a frame in which escape's release closed the window.
C4_Witness ==
    /\ pc = "returned"
    /\ FrameDone
    /\ callback_invoked
    /\ \E i \in 1..Len(log) : log[i].op = "default_close"

(* C7: with an effect attached every pass is rendered with the offscreen   *)
(* framebuffer bound and the screen is bound again before the effect's     *)
(* update and draw; without an effect the screen is bound for all passes;  *)
(* at every swap_buffers the bound framebuffer is the screen (0).          *)
C7_TargetBinding ==
    /\ FrameDone =>
         \A i \in 1..Len(log) :
            /\ log[i].op = "render_scene" =>
                  log[i].fbo = (IF post_processing THEN fbm.fbo ELSE 0)
            /\ log[i].op \in {"effect.update", "effect.draw", "swap_buffers"} =>
                  log[i].fbo = 0
    /\ fbm.fbo # 0
    /\ pc # "draw" => gl.bound = 0

\* A finished frame with an effect and two passes.
C7_Witness ==
    /\ FrameDone
    /\ post_processing
    /\ Count("render_scene") = 2
    /\ Count("effect.draw") = 1

\* The calls of one camera pass, in the order of the protocol.
PassProtocol == <<"start_pass", "select:LinesShader", "camera.upload:lines",
                  "select:ObjectShader", "camera.upload:object", "render_scene">>
IsPassEntry(e) == e.op \in PassOps \cup {"render_complete"}

(* C21: in a frame the camera passes run for p = 0 .. num_passes()-1 in    *)
(* ascending order, each as start_pass(p), line shader selected, camera    *)
(* uploaded to its view uniform, object shader selected, camera uploaded   *)
(* to its view uniform, scene rendered; render_complete is called exactly  *)
(* once, after the last pass and before the post-processing and the swap,  *)
(* also with zero passes.                                                  *)
C21_PassProtocol ==
    FrameDone =>
      LET ll == LoopLog
          ps == SelectSeq(ll, IsPassEntry)
          np == camera.passes
      IN
      /\ Len(ps) = Len(PassProtocol) * np + 1
      /\ \A p \in 0..(np - 1) : \A k \in 1..Len(PassProtocol) :
            /\ ps[Len(PassProtocol) * p + k].op = PassProtocol[k]
            /\ ps[Len(PassProtocol) * p + k].n = p
      /\ ps[Len(ps)].op = "render_complete"
      /\ \A i \in 1..Len(ps) : ps[i].op \in CameraOps => ps[i].cam = camera
      /\ \A i \in 1..Len(ll) :
            ll[i].op \in EffectOps \cup {"swap_buffers"} =>
               \E j \in 1..(i - 1) : ll[j].op = "render_complete"

\* A finished frame of a camera with two passes, and with an effect attached.
C21_Witness ==
    /\ FrameDone
    /\ camera.passes = MaxPasses
    /\ Count("start_pass") = MaxPasses
    /\ Count("render_complete") = 1
    /\ Count("effect.update") = 1

(* C27: with an effect attached, in each frame the effect's update is      *)
(* given the time elapsed since the previous frame, the viewport size and  *)
(* the camera's clip planes, and its draw then consumes the offscreen      *)
(* color/depth target; frames with different elapsed times hand different  *)
(* time values to the effect.  (The elapsed time of a frame is the one the *)
(* frame-rate cap reads, in whole milliseconds.)                           *)
C27_EffectGetsElapsedTime ==
    FrameDone =>
      LET ll == LoopLog
      IN  \A i \in 1..Len(ll) :
            ll[i].op = "effect.update" =>
               /\ \A j \in 1..Len(ll) : ll[j].op = "precise_time_ns" => ll[i].n = ll[j].n
               /\ ll[i].ev = Ev("update", "", win_size[1], win_size[2])
               /\ ll[i].cam = camera
               /\ i < Len(ll)
               /\ ll[i + 1].op = "effect.draw"
               /\ ll[i + 1].ev = Ev("draw", "", texture_id(PostProcessTarget),
                                    depth_id(PostProcessTarget))

\* A finished frame that took 3 ms, with an effect attached and a frame-rate
\* cap that read the clock.
C27_Witness ==
    /\ FrameDone
    /\ post_processing
    /\ \E i \in 1..Len(log) : log[i].op = "effect.update" /\ log[i].n = EffectDt
    /\ \E j \in 1..Len(log) : log[j].op = "precise_time_ns" /\ log[j].n = MaxElapsed

\* The positions in ll of the handler calls for resize events.
ResizesIn(ll) == {i \in 1..Len(ll) : ll[i].op = "handler" /\ ll[i].ev.kind = "FramebufferSize"}

(* C28: when a framebuffer-resized(w, h) event is processed with default   *)
(* handling, the viewport, the scissor rectangle and the offscreen         *)
(* post-processing target are set to (w, h) and the active camera is then  *)
(* handed the event, with or without an effect attached; so in every frame *)
(* that is drawn the offscreen target, the viewport and the scissor have   *)
(* the window's current framebuffer size.                                  *)
C28_ResizeReachesAll ==
    /\ (InFrame /\ Count("clear") = 1) =>
          LET ll == LoopLog
              rs == ResizesIn(ll)
          IN  /\ \A i \in rs :
                    /\ ll[i].ok
                    /\ ll[i + 1].op = "update_viewport" /\ ll[i + 1].ev = ll[i].ev
                    /\ ll[i + 2].op = "camera.handle_event" /\ ll[i + 2].ev = ll[i].ev
                    /\ ll[i + 2].cam = camera
              /\ \A i \in rs :
                    (\A j \in rs : j <= i) =>
                        /\ view.viewport = <<ll[i].ev.x, ll[i].ev.y>>
                        /\ view.scissor = <<ll[i].ev.x, ll[i].ev.y>>
                        /\ view.target_size = <<ll[i].ev.x, ll[i].ev.y>>
    /\ (pc = "draw" \/ FrameDone) =>
          /\ view.target_size = win_size
          /\ view.viewport = win_size
          /\ view.scissor = win_size

\* A finished frame with an effect attached and no resize event, in a window
\* that was resized in an earlier frame.
C28_Witness ==
    /\ FrameDone
    /\ post_processing
    /\ Count("effect.draw") = 1
    /\ Count("update_viewport") = 0
    /\ win_size # <<DEFAULT_WIDTH, DEFAULT_HEIGHT>>
    /\ view.target_size = win_size

----------------------------------------------------------------------------
(* Reading the log of one poll_events call made by hand *)

IsHandlerEntry(e) == e.op = "handler"
\* The log entries with operation op about the i-th event of the batch.
EntriesOf(lg, op, i) == {k \in 1..Len(lg) : lg[k].op = op /\ lg[k].n = i}
DefaultOps == {"default_close", "update_viewport"}
\* A poll_events call is taking place in this step.
Polling == pc = "user_glfw_poll" /\ pc' = "user_polled"

(* C2: poll_events calls the user handler exactly once per queued event;   *)
(* an event the handler answers false for gets no default handling (no     *)
(* close request, no resize) and does not reach the camera; an event it    *)
(* answers true for gets the default handling of its kind.                 *)
C2_HandlerVeto ==
    [][ Polling =>
        LET batch == events
            lg    == log'
            Ans(i) == \A k \in EntriesOf(lg, "handler", i) : lg[k].ok
            Resized == {i \in 1..Len(batch) : batch[i].kind = "FramebufferSize" /\ Ans(i)}
        IN  /\ \A i \in 1..Len(batch) :
                 /\ Cardinality(EntriesOf(lg, "handler", i)) = 1
                 /\ \A k \in EntriesOf(lg, "handler", i) : lg[k].ev = batch[i]
                 /\ ~Ans(i) =>
                      \A op \in DefaultOps \cup {"camera.handle_event"} :
                         EntriesOf(lg, op, i) = {}
                 /\ (Ans(i) /\ IsEscapeRelease(batch[i])) =>
                      Cardinality(EntriesOf(lg, "default_close", i)) = 1
                 /\ (Ans(i) /\ batch[i].kind = "FramebufferSize") =>
                      Cardinality(EntriesOf(lg, "update_viewport", i)) = 1
            /\ CountIn(lg, "handler") = Len(batch)
            /\ should_close' =
                 (should_close \/ \E i \in 1..Len(batch) : Ans(i) /\ IsEscapeRelease(batch[i]))
            /\ Resized = {} => view' = view
            /\ Resized # {} =>
                 LET last == CHOOSE i \in Resized : \A j \in Resized : j <= i
                 IN  view'.viewport = <<batch[last].x, batch[last].y>>
      ]_vars

\* A call in which a resize was vetoed and an escape release went through.
C2_Witness ==
    /\ pc = "user_polled"
    /\ \E k \in 1..Len(log) :
          log[k].op = "handler" /\ ~log[k].ok /\ log[k].ev.kind = "FramebufferSize"
    /\ \E k \in 1..Len(log) :
          log[k].op = "handler" /\ log[k].ok /\ IsEscapeRelease(log[k].ev)

\* The event of handler entry k went to the camera exactly once, after the
\* handler and after any default handling of that event.
ForwardedOnceAfterDefault(lg, k) ==
    /\ Cardinality(EntriesOf(lg, "camera.handle_event", lg[k].n)) = 1
    /\ \A c \in EntriesOf(lg, "camera.handle_event", lg[k].n) :
          /\ lg[c].ev = lg[k].ev
          /\ c > k
          /\ \A op \in DefaultOps : \A d \in EntriesOf(lg, op, lg[k].n) : d < c

(* C3 as stated: every event the handler lets proceed, of every kind, is   *)
(* forwarded to the camera exactly once, after its default handling.       *)
C3_ForwardAllKinds ==
    pc = "user_polled" =>
       \A k \in 1..Len(log) :
          (log[k].op = "handler" /\ log[k].ok) => ForwardedOnceAfterDefault(log, k)

(* C3 amended: every event the handler lets proceed, other than            *)
(* key-released(escape), is forwarded to the camera exactly once, after    *)
(* its default handling; key-released(escape) requests the close and is    *)
(* not forwarded to the camera.                                            *)
C3_ForwardExceptEscape ==
    pc = "user_polled" =>
       \A k \in 1..Len(log) :
          (log[k].op = "handler" /\ log[k].ok) =>
             IF IsEscapeRelease(log[k].ev)
             THEN /\ EntriesOf(log, "camera.handle_event", log[k].n) = {}
                  /\ Cardinality(EntriesOf(log, "default_close", log[k].n)) = 1
                  /\ should_close
             ELSE /\ ForwardedOnceAfterDefault(log, k)
                  /\ log[k].ev.kind = "FramebufferSize" =>
                        EntriesOf(log, "update_viewport", log[k].n) # {}

\* A call that let a resize and an escape release proceed.
C3_Witness ==
    /\ pc = "user_polled"
    /\ \E k \in 1..Len(log) :
          log[k].op = "handler" /\ log[k].ok /\ log[k].ev.kind = "FramebufferSize"
    /\ \E k \in 1..Len(log) :
          log[k].op = "handler" /\ log[k].ok /\ IsEscapeRelease(log[k].ev)

(* C5: the queue is FIFO and drained once per poll_events call: a native   *)
(* callback appends at the end, the handler sees the events present at the *)
(* start of the drain in queue order, each exactly once, and the queue is  *)
(* empty when poll_events returns.                                         *)
C5_FifoDrain ==
    [][ /\ Polling =>
            LET hs == SelectSeq(log', IsHandlerEntry)
            IN  /\ Len(hs) = Len(events)
                /\ \A i \in 1..Len(hs) : hs[i].ev = events[i] /\ hs[i].n = i
                /\ events' = <<>>
        /\ (pc' = pc /\ events' # events) =>
            /\ Len(events') = Len(events) + 1
            /\ SubSeq(events', 1, Len(events)) = events
      ]_vars

\* A call that delivered two different events.
C5_Witness ==
    /\ pc = "user_polled"
    /\ events = <<>>
    /\ LET hs == SelectSeq(log, IsHandlerEntry)
       IN  Len(hs) = 2 /\ hs[1].ev # hs[2].ev

(* C17: set_framerate_limit(Some(f)) with f > 0 sets the budget of a frame   *)
(* to 1000 div f milliseconds and set_framerate_limit(None) removes it.  At  *)
(* the end of a frame drawn with a budget, with e the whole milliseconds     *)
(* elapsed since the end of the frame before, timer.sleep is called exactly  *)
(* once, with budget - e, when e < budget, and is not called when            *)
(* e >= budget; a frame drawn without a budget never sleeps.                 *)
C17_FrameCap ==
    /\ [][max_ms_per_frame' # max_ms_per_frame =>
             \E fps \in FpsChoices :
                 max_ms_per_frame' = IF fps.some THEN [some |-> TRUE, ms |-> 1000 \div fps.f]
                                     ELSE [some |-> FALSE, ms |-> 0]
       ]_vars
    /\ [](FrameDone =>
             LET ll     == LoopLog
                 clock  == {i \in 1..Len(ll) : ll[i].op = "precise_time_ns"}
                 sleeps == {i \in 1..Len(ll) : ll[i].op = "sleep"}
             IN  IF max_ms_per_frame.some
                 THEN /\ Cardinality(clock) = 1
                      /\ \A i \in clock :
                            IF ll[i].n < max_ms_per_frame.ms
                            THEN /\ sleeps = {i + 1}
                                 /\ ll[i + 1].n = max_ms_per_frame.ms - ll[i].n
                                 /\ ll[i + 1].n > 0
                            ELSE sleeps = {}
                 ELSE sleeps = {})

\* A frame with a budget of 2 ms that took 1 ms and slept 1 ms.
C17_Witness ==
    /\ FrameDone
    /\ max_ms_per_frame = [some |-> TRUE, ms |-> 2]
    /\ \E i \in 1..(Len(log) - 1) :
          /\ log[i].op = "precise_time_ns" /\ log[i].n = 1
          /\ log[i + 1].op = "sleep" /\ log[i + 1].n = 1

\* The entries a step adds to the log: all of the new log when the step starts
\* a new one.
AddedEntries(old, new) ==
    IF Len(new) >= Len(old) /\ SubSeq(new, 1, Len(old)) = old
    THEN SubSeq(new, Len(old) + 1, Len(new))
    ELSE new

(* C15: set_camera(c) makes c the active camera and makes exactly one call,  *)
(* on c: handle_event with a framebuffer-resized event of the window's       *)
(* current size; every camera call the window makes afterwards, event or     *)
(* per-frame, is made on the camera that is active at the call, so none      *)
(* reaches a replaced camera.  The first entry of the setup log is the       *)
(* resize of the window's first size delivered to the initial camera.        *)
C15_SetCameraResizes ==
    /\ [][LET added == AddedEntries(log, log')
              last  == log'[Len(log')]
          IN  /\ (\E k \in 1..Len(added) : added[k].by = "set_camera") =>
                    (/\ Len(log') = Len(log) + 1
                     /\ last.op = "camera.handle_event"
                     /\ last.cam = camera'
                     /\ last.ev = Ev("FramebufferSize", "", win_size[1], win_size[2]))
              /\ (camera' # camera) =>
                    (Len(log') = Len(log) + 1 /\ last.by = "set_camera")
              /\ \A k \in 1..Len(added) :
                    (added[k].op \in CameraOps) => (added[k].cam = camera')
       ]_vars
    /\ [](pc = "setup" =>
              (/\ Len(log) >= 1
               /\ log[1] = [op |-> "camera.handle_event", by |-> "setup",
                            ev |-> Ev("FramebufferSize", "", DEFAULT_WIDTH, DEFAULT_HEIGHT),
                            n |-> 0, ok |-> TRUE, fbo |-> 0, cam |-> ArcBall]))

\* A frame drawn with a camera set in the callback, after a resize of the
\* window: the camera got the new size first, then its update and its passes.
C15_Witness ==
    /\ FrameDone
    /\ camera # ArcBall
    /\ win_size # <<DEFAULT_WIDTH, DEFAULT_HEIGHT>>
    /\ \E i, j, k \in 1..Len(log) :
          /\ i < j /\ j < k
          /\ log[i].by = "set_camera" /\ log[i].cam = camera
          /\ log[i].ev = Ev("FramebufferSize", "", win_size[1], win_size[2])
          /\ log[j].op = "camera.update" /\ log[j].cam = camera
          /\ log[k].op = "start_pass" /\ log[k].cam = camera

----------------------------------------------------------------------------
(* The framebuffer manager on its own: any sequence of select and resize calls *)

\* FramebuffersManager::select called with target t
Select(t) ==
    /\ LET m == select(Mgr(fbm, gl, <<>>), t)
       IN  /\ fbm' = m.fbm
           /\ gl'  = m.gl
           /\ sel' = [prev_target |-> sel.last_target, last_target |-> t,
                      last_calls  |-> m.calls, prev_fbm |-> fbm,
                      prev_att |-> Attachments(gl),
                      resized |-> NoResize, dropped |-> sel.dropped, drop |-> sel.drop]
    /\ UNCHANGED <<glrun, winVars, camVars, sceneVars>>

\* RenderTarget::resize called on target t; it is not a select call, so the
\* next select does not immediately follow another one.
\* sel.resized records the target before and after, the size asked for and
\* the texture that was bound on the active unit before the call.
Resize(t, w, h) ==
    /\ gl'  = resize(gl, t, w, h).gl
    /\ sel' = [sel EXCEPT !.last_target = NoTarget,
                          !.resized = [before |-> t, after |-> resize(gl, t, w, h).target,
                                       size |-> <<w, h>>,
                                       bound_before |-> gl.tex2d[gl.active]]]
    /\ UNCHANGED <<fbm, glrun, winVars, camVars, sceneVars>>

\* What Object::upload does to the texture bindings (object.rs:91-92):
\* ActiveTexture(TEXTURE0), BindTexture(TEXTURE_2D, the object's texture).
UploadBindsTexture ==
    /\ gl'  = GlBindTexture(GlActiveTexture(gl, 0), ObjectTexture)
    /\ sel' = [sel EXCEPT !.last_target = NoTarget, !.resized = NoResize]
    /\ UNCHANGED <<fbm, glrun, winVars, camVars, sceneVars>>

NextFbm ==
    \/ \E t \in Targets : Select(t)
    \/ \E t \in Targets, s \in TargetSizes : Resize(t, s[1], s[2])
    \/ UploadBindsTexture

SpecFbm == Init /\ [][NextFbm]_vars

(* C6: select is idempotent at the level of API calls: select(t) right     *)
(* after select(t) issues no framebuffer bind and no attachment call and   *)
(* leaves curr_fbo, curr_color and curr_depth as they were, for Screen and *)
(* for Offscreen targets and whatever was selected before.                 *)
C6_SelectIdempotent ==
    (sel.last_target # NoTarget /\ sel.prev_target = sel.last_target) =>
        /\ sel.last_calls = <<>>
        /\ fbm = sel.prev_fbm

\* An offscreen target selected twice in a row, after some other target.
C6_Witness ==
    /\ sel.last_target = OtherTarget
    /\ sel.prev_target = OtherTarget
    /\ gl.color = texture_id(OtherTarget)
    /\ fbm.curr_fbo = fbm.fbo

(* C16: a resize call leaves the target what it was, so that texture_id and  *)
(* depth_id return the handles they returned before it, and leaves the       *)
(* manager's curr_fbo, curr_color, curr_depth and fbo unchanged.  On an      *)
(* Offscreen target it gives the two textures of the target storage of the   *)
(* new size, touches no other texture, keeps the framebuffer binding, the    *)
(* attachments and the viewport, and leaves no texture bound on the 2D       *)
(* binding point.  On Screen, whose texture_id and depth_id are 0, it sets   *)
(* the viewport and nothing else.                                            *)
C16_ResizeKeepsHandles ==
    [][sel'.resized # NoResize =>
          LET b  == sel'.resized.before
              a  == sel'.resized.after
              sz == sel'.resized.size
          IN  /\ a = b
              /\ texture_id(a) = texture_id(b)
              /\ depth_id(a) = depth_id(b)
              /\ fbm' = fbm
              /\ IF b.kind = "Screen"
                 THEN /\ texture_id(a) = 0 /\ depth_id(a) = 0
                      /\ gl' = [gl EXCEPT !.viewport = sz]
                 ELSE /\ \A u \in TextureUnits : gl'.tex2d[u] = 0
                      /\ gl'.tex_size[b.texture] = sz
                      /\ gl'.tex_size[b.depth] = sz
                      /\ \A t \in DOMAIN gl.tex_size :
                            t \notin {b.texture, b.depth} => gl'.tex_size[t] = gl.tex_size[t]
                      /\ gl'.bound = gl.bound /\ gl'.color = gl.color
                      /\ gl'.depth = gl.depth /\ gl'.viewport = gl.viewport
                      /\ gl'.err = gl.err /\ gl'.active = gl.active
    ]_vars

\* The selected offscreen target was resized while an object's texture was bound.
C16_Witness ==
    /\ sel.resized.before = PostProcessTarget
    /\ sel.resized.after = PostProcessTarget
    /\ sel.resized.bound_before = ObjectTexture
    /\ sel.resized.size = <<2, 2>>
    /\ gl.tex_size[texture_id(PostProcessTarget)] = <<2, 2>>
    /\ gl.tex_size[texture_id(OtherTarget)] = <<DEFAULT_WIDTH, DEFAULT_HEIGHT>>
    /\ fbm.curr_color = texture_id(PostProcessTarget)
    /\ gl.tex2d[0] = 0

\* The last select issued the GL call with this texture.
Issued(call, tex) == \E i \in 1..Len(sel.last_calls) : sel.last_calls[i] = <<call, tex>>

(* C22: after any sequence of select calls on a fresh manager curr_fbo is  *)
(* the framebuffer bound in the GL context and is 0 or the manager's own   *)
(* offscreen fbo; right after select(Offscreen t) the offscreen fbo is     *)
(* bound and its color and depth attachments are t's texture and depth     *)
(* handles, whatever targets were selected before.                         *)
C22_BindingTracked ==
    /\ fbm.curr_fbo = gl.bound
    /\ fbm.curr_fbo \in {0, fbm.fbo}
    /\ fbm.fbo = FboHandle
    /\ ~gl.err
    /\ sel.last_target.kind = "Offscreen" =>
          /\ gl.bound = fbm.fbo
          /\ gl.color = texture_id(sel.last_target)
          /\ gl.depth = depth_id(sel.last_target)
    /\ sel.last_target.kind = "Screen" => gl.bound = 0

\* An offscreen target selected right after the other one, which was attached.
C22_Witness ==
    /\ sel.last_target = OtherTarget
    /\ sel.prev_target = PostProcessTarget
    /\ sel.prev_att = [bound |-> FboHandle, color |-> texture_id(PostProcessTarget),
                                            depth |-> depth_id(PostProcessTarget)]
    /\ gl.color = texture_id(OtherTarget)
    /\ gl.depth = depth_id(OtherTarget)
    /\ gl.bound = FboHandle

(* C23: select(Offscreen t) issues the color attachment call only if t's   *)
(* color texture is not already attached to the offscreen framebuffer, and *)
(* the depth attachment call only if t's depth texture is not already      *)
(* attached; the second selection of t in Offscreen t, Screen, Offscreen t *)
(* issues no attachment call.                                              *)
C23_AttachOnlyIfNotAttached ==
    sel.last_target.kind = "Offscreen" =>
       /\ Issued("FramebufferTexture2D:color", sel.last_target.texture) =>
              sel.prev_att.color # sel.last_target.texture
       /\ Issued("FramebufferTexture2D:depth", sel.last_target.depth) =>
              sel.prev_att.depth # sel.last_target.depth

\* Offscreen t selected right after Screen, with t's textures still attached
\* from an earlier selection of t.
C23_Witness ==
    /\ sel.last_target = PostProcessTarget
    /\ sel.prev_target = Screen
    /\ sel.prev_att = [bound |-> 0, color |-> texture_id(PostProcessTarget),
                                    depth |-> depth_id(PostProcessTarget)]
    /\ sel.prev_fbm.curr_color = 0
    /\ gl.color = texture_id(PostProcessTarget)

----------------------------------------------------------------------------
(* The first-person camera (src/src/camera/first_person.rs)                *)
(*                                                                         *)
(* Angles and lengths are fixed-point numbers in units of 0.0001, so the   *)
(* clamp margin 0.0001 is 1 and pi is 31416.  A float that may be NaN is a *)
(* record [nan, v]; comparisons with a NaN are false, as for an f32.  The  *)
(* eye is kept symbolically: a start point and the moves applied to it.    *)

\* 0.0001, the margin of update_restrictions
EPS == 1
\* Real::pi()
PI == 31416
\* yaw_step: 0.005 per pixel
YAW_STEP == 50
\* pitch_step: 0.005 per pixel
PITCH_STEP == 50
\* move_step: 0.5
MOVE_STEP == 5000

Num(v) == [nan |-> FALSE, v |-> v]
NaN    == [nan |-> TRUE,  v |-> 0]
FAdd(a, k) == IF a.nan THEN NaN ELSE Num(a.v + k)
FLe(a, k)  == ~a.nan /\ a.v <= k
FLt(a, k)  == ~a.nan /\ a.v < k
FGt(a, k)  == ~a.nan /\ a.v > k

\* ((at.y - eye.y) / dist).acos() for d = at - eye, on the directions whose
\* angle is a multiple of pi/4; 0/0 is NaN.
AcosOfDir(d) ==
    CASE d = <<0, 0, 0>>                          -> NaN
      [] d[1] = 0 /\ d[3] = 0 /\ d[2] > 0         -> Num(0)
      [] d[1] = 0 /\ d[3] = 0 /\ d[2] < 0         -> Num(PI)
      [] d[2] = 0 /\ (d[1] # 0 \/ d[3] # 0)       -> Num(PI \div 2)
      [] d[2] > 0 /\ d[2] * d[2] = d[1] * d[1] + d[3] * d[3] -> Num(PI \div 4)
      [] d[2] < 0 /\ d[2] * d[2] = d[1] * d[1] + d[3] * d[3] -> Num(3 * (PI \div 4))

\* atan2(z, x) on the axes; atan2(0, 0) is 0.
Atan2(z, x) ==
    CASE z = 0 /\ x >= 0 -> 0
      [] z = 0 /\ x < 0  -> PI
      [] z > 0 /\ x = 0  -> PI \div 2
      [] z < 0 /\ x = 0  -> 0 - (PI \div 2)

\* eye + axis * k, the axis taken from the view at (yaw, pitch).  Adding a zero
\* vector changes nothing unless the axis is NaN.
Move(eye, axis, yaw, pitch, k) ==
    IF k = 0 /\ ~pitch.nan THEN eye
    ELSE [eye EXCEPT !.moves = Append(@, [axis |-> axis, yaw |-> yaw, pitch |-> pitch, k |-> k])]

\* Mat4::new_perspective(w, h, fov, znear, zfar)
new_perspective(w, h, fov, znear, zfar) ==
    [w |-> w, h |-> h, fov |-> fov, znear |-> znear, zfar |-> zfar]

\* Camera::view_transform: look_at_z(eye, at(), y), a function of eye, yaw, pitch
view_transform(c) == [eye |-> c.eye, yaw |-> c.yaw, pitch |-> c.pitch]

\* FirstPerson::update_projviews; recomputed counts its runs in the operation
update_projviews(c) ==
    LET pv == [projection |-> c.projection, inv_view |-> view_transform(c)]
    IN  [c EXCEPT !.proj_view = pv, !.inv_proj_view = [inv |-> pv],
                  !.recomputed = @ + 1]

\* FirstPerson::look_at_z
look_at_z(c, eye, at) ==
    LET pitch == AcosOfDir(<<at[1] - eye[1], at[2] - eye[2], at[3] - eye[3]>>)
        yaw   == Atan2(at[3] - eye[3], at[1] - eye[1])
    IN  update_projviews([c EXCEPT !.eye = [p |-> eye, moves |-> <<>>],
                                   !.yaw = yaw, !.pitch = pitch])

\* FirstPerson::new_with_frustrum, with the arguments FirstPerson::new gives it
FirstPersonNew(eye, at) ==
    look_at_z([eye |-> [p |-> <<0, 0, 0>>, moves |-> <<>>],
               yaw |-> 0, pitch |-> Num(0),
               yaw_step |-> YAW_STEP, pitch_step |-> PITCH_STEP, move_step |-> MOVE_STEP,
               fov |-> PI \div 4, znear |-> 1000, zfar |-> 10240000,
               projection |-> new_perspective(800, 600, PI \div 4, 1000, 10240000),
               proj_view |-> "zero", inv_proj_view |-> "zero",
               last_cursor_pos |-> <<0, 0>>,
               recomputed |-> 0],
              eye, at)

\* A mutation of update_restrictions: the upper clamp is missing.
update_restrictionsNoUpper(c) ==
    IF FLe(c.pitch, EPS) THEN [c EXCEPT !.pitch = Num(EPS)] ELSE c

\* FirstPerson::update_restrictions
update_restrictions(c) ==
    LET c1 == IF FLe(c.pitch, EPS) THEN [c EXCEPT !.pitch = Num(EPS)] ELSE c
    IN  IF FGt(c1.pitch, PI - EPS) THEN [c1 EXCEPT !.pitch = Num(PI - EPS)] ELSE c1

\* FirstPerson::handle_left_button_displacement
handle_left_button_displacement(c, dx, dy) ==
    update_projviews(update_restrictions(
        [c EXCEPT !.yaw = @ + dx * c.yaw_step, !.pitch = FAdd(@, dy * c.pitch_step)]))

\* FirstPerson::handle_right_button_displacement: 0.01 * d / 10.0 is 10 units per pixel
handle_right_button_displacement(c, dx, dy) ==
    LET e1 == Move(c.eye, "tangent",   c.yaw, c.pitch, 10 * dx)
        e2 == Move(e1,    "bitangent", c.yaw, c.pitch, 10 * dy)
    IN  update_projviews(update_restrictions([c EXCEPT !.eye = e2]))

\* A mutation of handle_scroll: the matrices are recomputed before the eye moves.
handle_scrollRecomputeFirst(c, yoff) ==
    LET c1 == update_projviews(update_restrictions(c))
    IN  [c1 EXCEPT !.eye = Move(@, "front", c.yaw, c.pitch, c.move_step * yoff)]

\* FirstPerson::handle_scroll
handle_scroll(c, yoff) ==
    update_projviews(update_restrictions(
        [c EXCEPT !.eye = Move(@, "front", c.yaw, c.pitch, c.move_step * yoff)]))

\* A mutation of handle_event: the right button is looked at only when the
\* left one is not pressed.
handle_eventElseIf(c, e, left, right) ==
    CASE e.kind = "CursorPos" ->
            LET dx == e.x - c.last_cursor_pos[1]
                dy == e.y - c.last_cursor_pos[2]
                c1 == IF left THEN handle_left_button_displacement(c, dx, dy)
                      ELSE IF right THEN handle_right_button_displacement(c, dx, dy)
                      ELSE c
            IN  [c1 EXCEPT !.last_cursor_pos = <<e.x, e.y>>]
      [] e.kind = "Scroll" -> handle_scroll(c, e.y)
      [] e.kind = "FramebufferSize" ->
            update_projviews([c EXCEPT !.projection =
                                  new_perspective(e.x, e.y, c.fov, c.znear, c.zfar)])
      [] OTHER -> c

\* Camera::handle_event; left and right are what get_mouse_button answers
handle_event(c, e, left, right) ==
    CASE e.kind = "CursorPos" ->
            LET dx == e.x - c.last_cursor_pos[1]
                dy == e.y - c.last_cursor_pos[2]
                c1 == IF left  THEN handle_left_button_displacement(c, dx, dy)   ELSE c
                c2 == IF right THEN handle_right_button_displacement(c1, dx, dy) ELSE c1
            IN  [c2 EXCEPT !.last_cursor_pos = <<e.x, e.y>>]
      [] e.kind = "Scroll" -> handle_scroll(c, e.y)
      [] e.kind = "FramebufferSize" ->
            update_projviews([c EXCEPT !.projection =
                                  new_perspective(e.x, e.y, c.fov, c.znear, c.zfar)])
      [] OTHER -> c

\* A mutation of update: nothing is done when no arrow key is pressed.
updateOnlyIfHeld(c, held) ==
    LET e1 == IF "Up"    \in held THEN Move(c.eye, "front", c.yaw, c.pitch, c.move_step)     ELSE c.eye
        e2 == IF "Down"  \in held THEN Move(e1,    "front", c.yaw, c.pitch, 0 - c.move_step) ELSE e1
        e3 == IF "Right" \in held THEN Move(e2,    "right", c.yaw, c.pitch, 0 - c.move_step) ELSE e2
        e4 == IF "Left"  \in held THEN Move(e3,    "right", c.yaw, c.pitch, c.move_step)     ELSE e3
    IN  IF held \cap {"Up", "Down", "Right", "Left"} = {} THEN c
        ELSE update_projviews(update_restrictions([c EXCEPT !.eye = e4]))

\* Camera::update; held is the set of arrow keys get_key reports as pressed
update(c, held) ==
    LET e1 == IF "Up"    \in held THEN Move(c.eye, "front", c.yaw, c.pitch, c.move_step)     ELSE c.eye
        e2 == IF "Down"  \in held THEN Move(e1,    "front", c.yaw, c.pitch, 0 - c.move_step) ELSE e1
        e3 == IF "Right" \in held THEN Move(e2,    "right", c.yaw, c.pitch, 0 - c.move_step) ELSE e2
        e4 == IF "Left"  \in held THEN Move(e3,    "right", c.yaw, c.pitch, c.move_step)     ELSE e3
    IN  update_projviews(update_restrictions([c EXCEPT !.eye = e4]))

\* ---- inputs of the camera's operations
\* Where a camera is asked to look: at - eye.
LookDirs  == {<<0, 0, 0>>, <<0, 1, 0>>, <<0, -1, 0>>, <<1, 0, 0>>, <<0, 1, -1>>}
\* Cursor displacements, in pixels.
DPos      == {<<0, 0>>, <<1, 1>>, <<0, -700>>, <<-1, 700>>}
\* Events a camera is handed.
CamEvents == {Ev("CursorPos", "", 0, 700), Ev("CursorPos", "", 3, -700),
              Ev("Scroll", "", 0, 1), Ev("FramebufferSize", "", 2, 2),
              Ev("KeyPressed", "Up", 0, 0)}
\* Arrow keys held during an update.
KeyHolds  == {{}, {"Up"}, {"Up", "Down", "Right", "Left"}}
Queries   == {"transformation", "inv_transformation", "eye", "clip_planes",
              "view_transform", "at"}

Hist(op, e, left, right) ==
    [op |-> op, n |-> cam_hist.n + 1, ev |-> e, left |-> left, right |-> right,
     held |-> {}, before |-> cam]

CamOp(res, h) ==
    /\ cam_hist.n < MaxCamOps
    /\ cam' = res
    /\ cam_hist' = h
    /\ UNCHANGED <<winVars, fbmVars, sceneVars>>

\* The camera at the start of an operation: nothing recomputed yet.
Cam0 == [cam EXCEPT !.recomputed = 0]

CamLookAtZ(d) ==
    CamOp(look_at_z(Cam0, <<0, 0, 0>>, d), Hist("look_at_z", NoEv, FALSE, FALSE))
CamLeftDrag(d) ==
    CamOp(handle_left_button_displacement(Cam0, d[1], d[2]),
          Hist("left_drag", Ev("drag", "", d[1], d[2]), TRUE, FALSE))
CamRightDrag(d) ==
    CamOp(handle_right_button_displacement(Cam0, d[1], d[2]),
          Hist("right_drag", Ev("drag", "", d[1], d[2]), FALSE, TRUE))
CamScroll(yoff) ==
    CamOp(handle_scroll(Cam0, yoff), Hist("scroll", Ev("Scroll", "", 0, yoff), FALSE, FALSE))
CamHandleEvent(e, left, right) ==
    CamOp(handle_event(Cam0, e, left, right), Hist("handle_event", e, left, right))
CamUpdate(held) ==
    CamOp(update(Cam0, held), [Hist("update", NoEv, FALSE, FALSE) EXCEPT !.held = held])
\* transformation, inv_transformation, eye, clip_planes, view_transform, at:
\* they take &self and return a value.
CamQuery(q) ==
    CamOp(Cam0, Hist("query", NoEv, FALSE, FALSE))

CamInit ==
    /\ \E d \in LookDirs : cam = FirstPersonNew(<<0, 0, 0>>, d)
    /\ cam_hist = [op |-> "new", n |-> 0, ev |-> NoEv, left |-> FALSE, right |-> FALSE,
                   held |-> {}, before |-> <<>>]

NextCam ==
    \/ \E d \in LookDirs : CamLookAtZ(d)
    \/ \E d \in DPos : CamLeftDrag(d)
    \/ \E d \in DPos : CamRightDrag(d)
    \/ \E y \in {-1, 1} : CamScroll(y)
    \/ \E e \in CamEvents, l \in BOOLEAN, r \in BOOLEAN : CamHandleEvent(e, l, r)
    \/ \E h \in KeyHolds : CamUpdate(h)
    \/ \E q \in Queries : CamQuery(q)

\* A window that holds a first-person camera just built.
InitCam == WinInit /\ FbmInit /\ CamInit /\ SceneIdle

SpecCam == InitCam /\ [][NextCam]_vars

B2N(b) == IF b THEN 1 ELSE 0

(* C8 as claimed: update_projviews runs exactly once in each mutating        *)
(* operation - look_at_z, a cursor move handled as a drag whatever buttons   *)
(* are held, a scroll, a resize, the per-frame update - and never in a query.*)
C8_OncePerMutatingOp ==
    /\ cam_hist.op \in {"look_at_z", "update"} => cam.recomputed = 1
    /\ (cam_hist.op = "handle_event" /\ cam_hist.ev.kind = "CursorPos"
          /\ (cam_hist.left \/ cam_hist.right)) => cam.recomputed = 1
    /\ (cam_hist.op = "handle_event" /\ cam_hist.ev.kind \in {"Scroll", "FramebufferSize"})
          => cam.recomputed = 1
    /\ cam_hist.op = "query" => cam.recomputed = 0

(* C8, amended: update_projviews runs exactly once in each call of a mutator *)
(* - construction, look_at_z, the left and the right displacement handler,   *)
(* the scroll handler, a resize event, the per-frame update; a cursor-move   *)
(* event calls one displacement handler per held button, so it recomputes    *)
(* once with one button held, twice with both and not at all with none; an   *)
(* event of another kind and a query recompute nothing, and a query leaves   *)
(* every field as it was.                                                    *)
C8_OncePerMutatorCall ==
    /\ cam_hist.op \in {"new", "look_at_z", "left_drag", "right_drag", "scroll", "update"}
          => cam.recomputed = 1
    /\ cam_hist.op = "handle_event" =>
          cam.recomputed =
              CASE cam_hist.ev.kind = "CursorPos" -> B2N(cam_hist.left) + B2N(cam_hist.right)
                [] cam_hist.ev.kind \in {"Scroll", "FramebufferSize"} -> 1
                [] OTHER -> 0
    /\ cam_hist.op = "query" =>
          /\ cam.recomputed = 0
          /\ cam = [cam_hist.before EXCEPT !.recomputed = 0]

\* A cursor move with both buttons held: two recomputations in one event.
C8_Witness ==
    /\ cam_hist.op = "handle_event"
    /\ cam_hist.ev.kind = "CursorPos"
    /\ cam_hist.left /\ cam_hist.right
    /\ cam.recomputed = 2

\* The last operation was a left drag: the displacement handler called by
\* hand, or a cursor move with the left button held.
AfterLeftDrag ==
    \/ cam_hist.op = "left_drag"
    \/ cam_hist.op = "handle_event" /\ cam_hist.ev.kind = "CursorPos" /\ cam_hist.left

(* C9 as claimed: after each left drag of a camera whose pitch is a number,  *)
(* the pitch is strictly greater than the margin and strictly less than pi   *)
(* minus the margin.                                                         *)
C9_PitchStrictlyInside ==
    (AfterLeftDrag /\ ~cam_hist.before.pitch.nan) =>
        /\ ~cam.pitch.nan
        /\ EPS < cam.pitch.v
        /\ cam.pitch.v < PI - EPS

(* C9, amended: after each left drag the pitch is never below the margin nor *)
(* above pi minus the margin, and when it was a number before the drag it is *)
(* a number in the closed interval [margin, pi - margin] after it; both ends *)
(* are reached.                                                              *)
C9_PitchClamped ==
    AfterLeftDrag =>
        /\ ~FLt(cam.pitch, EPS)
        /\ ~FGt(cam.pitch, PI - EPS)
        /\ ~cam_hist.before.pitch.nan =>
              /\ ~cam.pitch.nan
              /\ EPS <= cam.pitch.v
              /\ cam.pitch.v <= PI - EPS

\* A drag down from the upper end of the interval to the lower end.
C9_Witness ==
    /\ cam_hist.op = "left_drag"
    /\ cam_hist.before.pitch = Num(PI - EPS)
    /\ cam.pitch = Num(EPS)

\* The last operation was an event that moves nothing: a cursor move with no
\* button held, or an event that is not a cursor move, a scroll or a resize.
AfterIdleEvent ==
    /\ cam_hist.op = "handle_event"
    /\ \/ cam_hist.ev.kind = "CursorPos" /\ ~cam_hist.left /\ ~cam_hist.right
       \/ cam_hist.ev.kind \notin {"CursorPos", "Scroll", "FramebufferSize"}

\* The view-projection matrix and its inverse, computed from the camera's
\* eye, yaw, pitch and projection as they are now.
FreshProjView(c) == [projection |-> c.projection, inv_view |-> view_transform(c)]

(* C24: after construction and after every public operation of the         *)
(* first-person camera the cached view-projection matrix is projection x   *)
(* inverse(view transform of the current eye, yaw, pitch) and the cached   *)
(* inverse is the inverse of that matrix: no query returns a matrix        *)
(* computed from a stale eye, yaw, pitch or projection.                    *)
C24_CacheCoherent ==
    /\ cam.proj_view = FreshProjView(cam)
    /\ cam.inv_proj_view = [inv |-> FreshProjView(cam)]

\* A scroll moved the eye and the cache holds the view from the new eye.
C24_Witness ==
    /\ cam_hist.op \in {"scroll", "handle_event"}
    /\ cam_hist.ev.kind = "Scroll"
    /\ cam.eye # cam_hist.before.eye
    /\ cam.proj_view.inv_view.eye = cam.eye
    /\ cam_hist.before.proj_view.inv_view.eye = cam_hist.before.eye

(* C25 as claimed: a per-frame update during which none of the four        *)
(* movement keys is held, a cursor move with no button held and a key or   *)
(* button event perform no recomputation of the cached matrices.           *)
C25_NoRecomputeWithoutChange ==
    /\ (cam_hist.op = "update" /\ cam_hist.held = {}) => cam.recomputed = 0
    /\ AfterIdleEvent => cam.recomputed = 0

(* C25, amended: an event that moves nothing - a cursor move with no       *)
(* button held, a key or button event - performs no recomputation and      *)
(* leaves eye, yaw, pitch, the projection and the cached matrices as they  *)
(* were; the per-frame update clamps the pitch and recomputes the cached   *)
(* matrices exactly once whether or not a movement key is held.            *)
C25_NoRecomputeInIdleEvent ==
    /\ AfterIdleEvent =>
          /\ cam.recomputed = 0
          /\ [cam EXCEPT !.last_cursor_pos = cam_hist.before.last_cursor_pos]
                = [cam_hist.before EXCEPT !.recomputed = 0]
    /\ cam_hist.op = "update" =>
          /\ cam.recomputed = 1
          /\ cam_hist.held = {} => cam.eye = cam_hist.before.eye
          /\ ~FLt(cam.pitch, EPS)

\* An update with no key held that clamped the pitch of a camera built
\* looking straight up, and recomputed.
C25_Witness ==
    /\ cam_hist.op = "update"
    /\ cam_hist.held = {}
    /\ cam_hist.before.pitch = Num(0)
    /\ cam.pitch = Num(EPS)
    /\ cam.recomputed = 1

(* C30: in every reachable state of a first-person camera - right after    *)
(* construction or look_at_z with any eye and at, straight up and straight *)
(* down included, and after any drags, scrolls, resizes and updates - the  *)
(* pitch lies within [margin, pi - margin].                                *)
C30_PitchAlwaysInRange ==
    /\ ~cam.pitch.nan
    /\ EPS <= cam.pitch.v
    /\ cam.pitch.v <= PI - EPS

\* look_at_z straight up has just left the pitch at 0, on the pole.
C30_Witness ==
    /\ cam_hist.op = "look_at_z"
    /\ cam.pitch = Num(0)
    /\ cam.recomputed = 1

----------------------------------------------------------------------------
(* The scene: Window.objects and the Object handles (window.rs, object.rs)  *)
(*                                                                           *)
(* An Object is a handle: the identity of its ObjectData allocation and the  *)
(* identity of its Mesh allocation.  heap[id] holds the fields of data       *)
(* allocation id, the mesh its handles refer to and the call that made it;   *)
(* meshes[m] is Mesh allocation m.  Clones of a handle are equal records:    *)
(* they share both allocations.  made_by and hidden_before are history: the  *)
(* call that made the object, and whether set_visible(false) was ever called *)
(* on it.  A failed unwrap or assertion ends the task: scene_hist.failed is  *)
(* set and no scene operation follows.                                       *)

\* Object::new: the ObjectData it allocates
ObjectNew(sx, sy, sz) ==
    [texture |-> "default", color |-> <<1, 1, 1>>, scale |-> <<sx, sy, sz>>,
     transform |-> "one", visible |-> TRUE]

Handle(id, mesh) == [data |-> id, mesh |-> mesh]

\* A mutation of Eq for Object: equality of the field values and of the mesh.
ObjectEqByValue(a, b) == heap[a.data].data = heap[b.data].data /\ a.mesh = b.mesh

\* impl Eq for Object: borrow::ref_eq on the two data allocations
ObjectEq(a, b) == a.data = b.data

\* A mutation of the search: iter().position, the index of the first element
\* equal to o.
position(s, o) ==
    LET hits == {i \in 1..Len(s) : ObjectEq(o, s[i])}
    IN  IF hits = {} THEN 0 ELSE CHOOSE i \in hits : \A j \in hits : i <= j

\* iter().rposition(|e| o == *e): the index of the last element equal to o, 0 for None
rposition(s, o) ==
    LET hits == {i \in 1..Len(s) : ObjectEq(o, s[i])}
    IN  IF hits = {} THEN 0 ELSE CHOOSE i \in hits : \A j \in hits : j <= i

\* swap_remove(i): the last element takes the place of element i
swap_remove(s, i) ==
    LET n == Len(s)
    IN  IF i = n THEN SubSeq(s, 1, n - 1)
        ELSE [SubSeq(s, 1, n - 1) EXCEPT ![i] = s[n]]

\* Window::remove
remove(s, o) ==
    LET i == rposition(s, o)
    IN  IF i # 0 THEN swap_remove(s, i) ELSE s

\* The handles user code can hold: one per allocation made so far.
Handles == {Handle(id, heap[id].mesh) : id \in 1..Len(heap)}

\* op: the operation; key: its arguments; arg: the Object passed or returned;
\* before: the scene list before it; failed: the operation ended the task;
\* calls: the calls it made on the graphics context, the mesh or its closure;
\* n: the number of Object method calls made so far.
SceneHist(op, o) ==
    [op |-> op, key |-> <<>>, arg |-> o, before |-> objects, failed |-> FALSE,
     calls |-> <<>>, n |-> scene_hist.n]

\* The task has not failed and may allocate one more object.
SceneRunning == ~scene_hist.failed
MayAdd       == SceneRunning /\ Len(heap) < MaxObjects

\* fail!: the operation returns nothing and changes nothing; the task ends.
SceneFail(op, key) ==
    /\ scene_hist' = [SceneHist(op, NoObject) EXCEPT !.failed = TRUE, !.key = key]
    /\ UNCHANGED <<objects, heap, geometries, meshes>>

\* Object::new(mesh, ..) and self.objects.push(res.clone()); res
PushNew(op, key, mesh, data) ==
    LET o == Handle(Len(heap) + 1, mesh)
    IN  /\ heap' = Append(heap, [data |-> data, mesh |-> mesh, made_by |-> <<op, key>>,
                                 hidden_before |-> FALSE])
        /\ objects' = Append(objects, o)
        /\ scene_hist' = [SceneHist(op, o) EXCEPT !.key = key]

\* A mutation of the lookup of a built-in: a missing name gets the first mesh of
\* the registry instead of failing.
AddBuiltinAnyMesh(op, name, data) ==
    /\ MayAdd
    /\ PushNew(op, name,
               IF name \in DOMAIN geometries THEN geometries[name] ELSE 1, data)
    /\ UNCHANGED <<geometries, meshes>>
    /\ UNCHANGED <<winVars, fbmVars, camVars>>

\* self.geometries.find(&~name).unwrap() and the push every add_<built-in> does
AddBuiltin(op, name, data) ==
    /\ MayAdd
    /\ IF name \in DOMAIN geometries
       THEN /\ PushNew(op, name, geometries[name], data)
            /\ UNCHANGED <<geometries, meshes>>
       ELSE SceneFail(op, name)
    /\ UNCHANGED <<winVars, fbmVars, camVars>>

\* Window::add_cube
AddCube(wx, wy, wz) == AddBuiltin("add_cube", "cube", ObjectNew(wx, wy, wz))

\* Window::add_sphere: the scale is r / 0.5
AddSphere(r) == AddBuiltin("add_sphere", "sphere", ObjectNew(2 * r, 2 * r, 2 * r))

\* Window::add_cone: the scale is (r / 0.5, h, r / 0.5)
AddCone(h, r) == AddBuiltin("add_cone", "cone", ObjectNew(2 * r, h, 2 * r))

\* Window::add_cylinder
AddCylinder(h, r) == AddBuiltin("add_cylinder", "cylinder", ObjectNew(2 * r, h, 2 * r))

\* Window::add_capsule
AddCapsule(h, r) == AddBuiltin("add_capsule", "capsule", ObjectNew(2 * r, h, 2 * r))

\* Window::add_obj
AddObj(path, scale) ==
    /\ MayAdd
    /\ LET insert == path \notin DOMAIN geometries
           mesh   == IF insert THEN Len(meshes) + 1 ELSE geometries[path]
       IN  /\ meshes' = IF insert THEN Append(meshes, MeshOf("obj::parse_file", path))
                        ELSE meshes
           /\ geometries' = IF insert
                            THEN [k \in DOMAIN geometries \cup {path} |->
                                      IF k = path THEN mesh ELSE geometries[k]]
                            ELSE geometries
           /\ PushNew("add_obj", path, mesh, ObjectNew(scale, scale, scale))
    /\ UNCHANGED <<winVars, fbmVars, camVars>>

\* window.objects_mut()[i] = o.clone()
ObjectsMutAssign(i, o) ==
    /\ SceneRunning
    /\ objects' = [objects EXCEPT ![i] = o]
    /\ scene_hist' = SceneHist("objects_mut", o)
    /\ UNCHANGED <<heap, geometries, meshes, winVars, fbmVars, camVars>>

\* window.remove(o)
Remove(o) ==
    /\ SceneRunning
    /\ objects' = remove(objects, o)
    /\ scene_hist' = SceneHist("remove", o)
    /\ UNCHANGED <<heap, geometries, meshes, winVars, fbmVars, camVars>>

NextScene ==
    \/ \E w \in {1, 2} : AddCube(w, w, w)
    \/ \E r \in {1} : AddSphere(r)
    \/ \E i \in 1..Len(objects), o \in Handles : ObjectsMutAssign(i, o)
    \/ \E o \in Handles : Remove(o)

SpecScene == Init /\ [][NextScene]_vars

\* The number of entries of s that are handles of allocation id.
Copies(s, id) == Cardinality({i \in 1..Len(s) : s[i].data = id})

(* C10: remove(o) removes exactly one entry identical to o (the same data    *)
(* allocation) when the scene holds one, so the scene is one shorter, and    *)
(* nothing otherwise; every other entry, those with equal field values or    *)
(* the same mesh included, is there afterwards as many times as before.      *)
C10_RemoveByIdentity ==
    scene_hist.op = "remove" =>
        LET o      == scene_hist.arg
            before == scene_hist.before
        IN  /\ IF Copies(before, o.data) > 0
               THEN /\ Len(objects) = Len(before) - 1
                    /\ Copies(objects, o.data) = Copies(before, o.data) - 1
               ELSE objects = before
            /\ \A id \in 1..Len(heap) :
                  id # o.data => Copies(objects, id) = Copies(before, id)

\* An object is removed from a scene that holds another object with the same
\* field values and the same mesh, placed after it in the list.
C10_Witness ==
    /\ scene_hist.op = "remove"
    /\ \E i, j \in 1..Len(scene_hist.before) :
          /\ i < j
          /\ scene_hist.before[i].data = scene_hist.arg.data
          /\ scene_hist.before[j].data # scene_hist.arg.data
          /\ heap[scene_hist.before[j].data] = heap[scene_hist.arg.data]
    /\ Len(objects) = Len(scene_hist.before) - 1

\* The indices at which list s holds a handle of allocation id.
IndicesOf(s, id) == {i \in 1..Len(s) : s[i].data = id}

\* The list after the entry at index i of list s went and the last entry of
\* s took its slot: one shorter, every other entry at its index.
IsSwapRemoved(new, s, i) ==
    /\ Len(new) = Len(s) - 1
    /\ \A j \in 1..Len(new) : new[j] = IF j = i THEN s[Len(s)] ELSE s[j]

(* C26 as claimed: remove(o) removes the first (lowest-index) entry        *)
(* identical to o and fills its slot with the last element of the list, so *)
(* every entry but the removed one and the moved last one keeps its index, *)
(* also when several entries of the list are identical to o.               *)
C26_RemoveFirstMatch ==
    scene_hist.op = "remove" =>
        LET before == scene_hist.before
            hits   == IndicesOf(before, scene_hist.arg.data)
        IN  IF hits = {} THEN objects = before
            ELSE \E i \in hits : /\ \A j \in hits : i <= j
                                 /\ IsSwapRemoved(objects, before, i)

(* C26, amended: remove(o) removes the last (highest-index) entry          *)
(* identical to o and fills its slot with the last element of the list, so *)
(* every entry but the removed one and the moved last one keeps its index, *)
(* also when several entries of the list are identical to o; with no such  *)
(* entry the list is unchanged.                                            *)
C26_RemoveLastMatch ==
    scene_hist.op = "remove" =>
        LET before == scene_hist.before
            hits   == IndicesOf(before, scene_hist.arg.data)
        IN  IF hits = {} THEN objects = before
            ELSE \E i \in hits : /\ \A j \in hits : j <= i
                                 /\ IsSwapRemoved(objects, before, i)

\* An object held twice, followed by another object, was removed: its second
\* entry went and the first one stayed where it was.
C26_Witness ==
    /\ scene_hist.op = "remove"
    /\ Len(scene_hist.before) = 3
    /\ IndicesOf(scene_hist.before, scene_hist.arg.data) = {1, 2}
    /\ objects = <<scene_hist.before[1], scene_hist.before[3]>>

----------------------------------------------------------------------------
(* The scene's assets: the geometry registry under the add_<built-in>        *)
(* operations and add_obj, for each set of names the built-in loader may     *)
(* have registered                                                           *)

\* Paths handed to add_obj: a file, and a file named as a built-in geometry.
ObjPaths == {"a.obj", "cube"}

\* The registries a loader may leave: every built-in name, or all but one.
Registries ==
    LET all == {BuiltinNames[i] : i \in 1..Len(BuiltinNames)}
    IN  {all} \cup {all \ {n} : n \in all}

InitAssets ==
    /\ WinInit /\ FbmInit /\ CamIdle
    /\ \E S \in Registries : SceneNew(S)

NextAssets ==
    \/ AddCube(1, 1, 1)
    \/ AddSphere(1)
    \/ AddCone(1, 1)
    \/ AddCylinder(1, 1)
    \/ AddCapsule(1, 1)
    \/ \E p \in ObjPaths : AddObj(p, 1)

SpecAssets == InitAssets /\ [][NextAssets]_vars

\* The objects add_obj made for path p, and the meshes obj::parse_file built for p.
MadeByAddObj(p) == {i \in 1..Len(heap) : heap[i].made_by = <<"add_obj", p>>}
ParsedFor(p)    == {m \in 1..Len(meshes) : meshes[m].src = <<"obj::parse_file", p>>}

(* C11: whatever add_obj calls were made, the objects made for one path are  *)
(* distinct allocations that refer to one and the same Mesh allocation, each *)
(* is appended to the scene by its call, and obj::parse_file was invoked     *)
(* exactly once for every path requested.                                    *)
C11_OneLoadPerPath ==
    /\ \A p \in ObjPaths :
          /\ \A i, j \in MadeByAddObj(p) : heap[i].mesh = heap[j].mesh
          /\ MadeByAddObj(p) # {} => Cardinality(ParsedFor(p)) = 1
    /\ scene_hist.op = "add_obj" =>
          /\ objects = Append(scene_hist.before, scene_hist.arg)
          /\ scene_hist.arg.data = Len(heap)

\* What does hold: one parse per requested path that was not a key of the
\* registry when first requested, none for a path that was.
C11_OneLoadPerUnregisteredPath ==
    \A p \in ObjPaths :
        /\ \A i, j \in MadeByAddObj(p) : heap[i].mesh = heap[j].mesh
        /\ Cardinality(ParsedFor(p)) <= 1
        /\ (MadeByAddObj(p) # {} /\ p \notin {"cube", "sphere"}) =>
              Cardinality(ParsedFor(p)) = 1

\* Two objects made by add_obj for the name of a built-in: no parse at all.
C11_Witness ==
    /\ Cardinality(MadeByAddObj("cube")) = 2
    /\ ParsedFor("cube") = {}
    /\ meshes[geometries["cube"]].src = <<"builtin", "cube">>

\* The objects made by operation op.
MadeBy(op) == {i \in 1..Len(heap) : heap[i].made_by[1] = op}

(* C32: every Object add_obj returned for a path has the mesh parsed from    *)
(* the file at that path, also when the path reads as the name of a built-in *)
(* geometry; and every Object add_cube, add_sphere, add_cone, add_cylinder   *)
(* or add_capsule returned has the built-in mesh of that name, whatever      *)
(* add_obj calls came before.                                                *)
C32_MeshByOrigin ==
    /\ \A i \in MadeBy("add_obj") :
          meshes[heap[i].mesh].src = <<"obj::parse_file", heap[i].made_by[2]>>
    /\ \A n \in DOMAIN BuiltinNames : \A i \in MadeBy("add_" \o BuiltinNames[n]) :
          meshes[heap[i].mesh].src = <<"builtin", BuiltinNames[n]>>

\* add_obj("cube", 1.0) on a window with every built-in registered has
\* returned an Object of the built-in cube; nothing was parsed.
C32_Witness ==
    /\ scene_hist.op = "add_obj" /\ scene_hist.key = "cube"
    /\ ~scene_hist.failed
    /\ \A n \in DOMAIN BuiltinNames : BuiltinNames[n] \in DOMAIN geometries
    /\ meshes[scene_hist.arg.mesh].src = <<"builtin", "cube">>
    /\ ParsedFor("cube") = {}
    /\ heap[scene_hist.arg.data].made_by = <<"add_obj", "cube">>

----------------------------------------------------------------------------
(* Drawing the scene: Object::upload, Window::render_scene and the passes of *)
(* a frame, with objects shown and hidden                                    *)

\* A call made while drawing: obj is the data allocation it is made for (0 for
\* none), val the value handed over.
GlCall(call, obj, pass, val) == [call |-> call, obj |-> obj, pass |-> pass, val |-> val]

\* A mutation of upload: the visible flag is not looked at.
uploadAlways(o, pass) ==
    LET d == heap[o.data].data
    IN  << GlCall("UniformMatrix4fv:transform",  o.data, pass, d.transform),
           GlCall("UniformMatrix3fv:ntransform", o.data, pass, d.transform),
           GlCall("UniformMatrix3fv:scale",      o.data, pass, d.scale),
           GlCall("Uniform3f:color",             o.data, pass, d.color),
           GlCall("mesh.bind",                   o.data, pass, o.mesh),
           GlCall("ActiveTexture",               o.data, pass, 0),
           GlCall("BindTexture",                 o.data, pass, d.texture),
           GlCall("DrawElements",                o.data, pass, o.mesh),
           GlCall("mesh.unbind",                 o.data, pass, o.mesh) >>

\* Object::upload
upload(o, pass) ==
    LET d == heap[o.data].data
    IN  IF d.visible
        THEN << GlCall("UniformMatrix4fv:transform",  o.data, pass, d.transform),
                GlCall("UniformMatrix3fv:ntransform", o.data, pass, d.transform),
                GlCall("UniformMatrix3fv:scale",      o.data, pass, d.scale),
                GlCall("Uniform3f:color",             o.data, pass, d.color),
                GlCall("mesh.bind",                   o.data, pass, o.mesh),
                GlCall("ActiveTexture",               o.data, pass, 0),
                GlCall("BindTexture",                 o.data, pass, d.texture),
                GlCall("DrawElements",                o.data, pass, o.mesh),
                GlCall("mesh.unbind",                 o.data, pass, o.mesh) >>
        ELSE <<>>

\* render_scene: for o in self.objects.iter() { o.upload(..) }
RECURSIVE UploadAll(_, _, _)
UploadAll(s, i, pass) ==
    IF i > Len(s) THEN <<>> ELSE upload(s[i], pass) \o UploadAll(s, i + 1, pass)

\* Window::render_scene
render_scene(pass) ==
    << GlCall("ActiveTexture", 0, pass, 0), GlCall("ClearColor", 0, pass, 0),
       GlCall("Clear:COLOR", 0, pass, 0),   GlCall("Clear:DEPTH", 0, pass, 0),
       GlCall("PolygonMode", 0, pass, 0) >>
    \o UploadAll(objects, 1, pass)

\* draw: for pass in range(0u, self.camera.num_passes()) { .. self.render_scene() }
RECURSIVE ScenePasses(_, _)
ScenePasses(pass, n) ==
    IF pass >= n THEN <<>> ELSE render_scene(pass) \o ScenePasses(pass + 1, n)

\* One frame drawn with a camera of n passes.
SceneFrame(n) ==
    /\ SceneRunning
    /\ scene_hist' = [SceneHist("frame", NoObject) EXCEPT !.key = n,
                                                          !.calls = ScenePasses(0, n)]
    /\ UNCHANGED <<objects, heap, geometries, meshes, winVars, fbmVars, camVars>>

\* A mutation of ObjectSet: the block is stored with the mesh, so that every
\* object of that mesh changes.
ObjectSetShared(o, op, key, d) ==
    /\ SceneRunning
    /\ scene_hist.n < MaxObjOps
    /\ heap' = [id \in 1..Len(heap) |->
                   IF heap[id].mesh = o.mesh
                   THEN [heap[id] EXCEPT !.data = d, !.hidden_before = @ \/ ~d.visible]
                   ELSE heap[id]]
    /\ scene_hist' = [SceneHist(op, o) EXCEPT !.key = key, !.n = @ + 1]
    /\ UNCHANGED <<objects, geometries, meshes, winVars, fbmVars, camVars>>

\* self.data.with_mut_borrow(|d| ..): the data allocation of handle o becomes d.
ObjectSet(o, op, key, d) ==
    /\ SceneRunning
    /\ scene_hist.n < MaxObjOps
    /\ heap' = [heap EXCEPT ![o.data].data = d,
                            ![o.data].hidden_before = @ \/ ~d.visible]
    /\ scene_hist' = [SceneHist(op, o) EXCEPT !.key = key, !.n = @ + 1]
    /\ UNCHANGED <<objects, geometries, meshes, winVars, fbmVars, camVars>>

\* Object::set_visible, through any handle of the object
SetVisible(o, visible) ==
    ObjectSet(o, "set_visible", visible, [heap[o.data].data EXCEPT !.visible = visible])

NextVisible ==
    \/ AddCube(1, 1, 1)
    \/ \E o \in Handles : ObjectsMutAssign(1, o)
    \/ \E o \in Handles, b \in BOOLEAN : SetVisible(o, b)
    \/ \E n \in 0..MaxPasses : SceneFrame(n)

SpecVisible == Init /\ [][NextVisible]_vars

\* The calls of kind c the last frame made for allocation id in a pass.
CallsFor(c, id, pass) ==
    Cardinality({i \in 1..Len(scene_hist.calls) :
                    /\ scene_hist.calls[i].call = c
                    /\ scene_hist.calls[i].obj = id
                    /\ scene_hist.calls[i].pass = pass})
UniformsFor(id, pass) ==
    Cardinality({i \in 1..Len(scene_hist.calls) :
                    /\ scene_hist.calls[i].call \in
                          {"UniformMatrix4fv:transform", "UniformMatrix3fv:ntransform",
                           "UniformMatrix3fv:scale", "Uniform3f:color"}
                    /\ scene_hist.calls[i].obj = id
                    /\ scene_hist.calls[i].pass = pass})

(* C12 as claimed: in every frame, an object of the scene whose visible flag *)
(* is false issues no draw call and writes no uniform, and one whose flag is *)
(* true issues exactly one indexed draw call in each camera pass.            *)
C12_OneDrawPerVisibleObject ==
    scene_hist.op = "frame" =>
        \A id \in 1..Len(heap), pass \in 0..(scene_hist.key - 1) :
            Copies(objects, id) > 0 =>
                IF heap[id].data.visible
                THEN CallsFor("DrawElements", id, pass) = 1
                ELSE CallsFor("DrawElements", id, pass) = 0 /\ UniformsFor(id, pass) = 0

(* C12, amended: in every frame, an object whose visible flag is false       *)
(* issues no draw call and writes no uniform, and one whose flag is true     *)
(* issues, in each camera pass, exactly one indexed draw call for each entry *)
(* of the scene list that refers to it: one when the scene lists it once,    *)
(* none when it is not in the scene; this also holds of an object that was   *)
(* hidden and shown again.                                                   *)
C12_OneDrawPerVisibleEntry ==
    scene_hist.op = "frame" =>
        \A id \in 1..Len(heap), pass \in 0..(scene_hist.key - 1) :
            IF heap[id].data.visible
            THEN /\ CallsFor("DrawElements", id, pass) = Copies(objects, id)
                 /\ UniformsFor(id, pass) = 4 * Copies(objects, id)
            ELSE /\ CallsFor("DrawElements", id, pass) = 0
                 /\ UniformsFor(id, pass) = 0

\* A frame of two passes or more with a hidden object and one that was hidden
\* and is shown again, each listed once.
C12_Witness ==
    /\ scene_hist.op = "frame"
    /\ scene_hist.key >= 2
    /\ \E a, b \in 1..Len(heap) :
          /\ Copies(objects, a) = 1 /\ Copies(objects, b) = 1
          /\ ~heap[a].data.visible
          /\ heap[b].data.visible /\ heap[b].hidden_before
          /\ CallsFor("DrawElements", a, 1) = 0
          /\ CallsFor("DrawElements", b, 1) = 1

----------------------------------------------------------------------------
(* The methods of Object that change it: the setters and modify_mesh         *)

\* textures_manager::singleton().add(path): the shared texture of that path
TexturesManagerAdd(path) == <<"texture", path>>

\* Object::set_scale
SetScale(o, sx, sy, sz) ==
    ObjectSet(o, "set_scale", <<sx, sy, sz>>,
              [heap[o.data].data EXCEPT !.scale = <<sx, sy, sz>>])

\* Object::set_color
SetColor(o, r, g, b) ==
    ObjectSet(o, "set_color", <<r, g, b>>,
              [heap[o.data].data EXCEPT !.color = <<r, g, b>>])

\* Object::set_texture
SetTexture(o, path) ==
    ObjectSet(o, "set_texture", path,
              [heap[o.data].data EXCEPT !.texture = TexturesManagerAdd(path)])

\* Object::look_at
LookAt(o, eye, at, up) ==
    ObjectSet(o, "look_at", <<eye, at, up>>,
              [heap[o.data].data EXCEPT !.transform = <<"look_at", eye, at, up>>])

\* Object::look_at_z
LookAtZ(o, eye, at, up) ==
    ObjectSet(o, "look_at_z", <<eye, at, up>>,
              [heap[o.data].data EXCEPT !.transform = <<"look_at_z", eye, at, up>>])

\* The closures handed to modify_mesh: whether the closure edits the mesh, what
\* it returns, and whether it calls modify_mesh on the same mesh from inside.
Closures ==
    {[edits |-> e, returns |-> r, reenters |-> FALSE] : e, r \in BOOLEAN}
    \cup {[edits |-> FALSE, returns |-> FALSE, reenters |-> TRUE]}

\* f(m) for a closure that returns: the mesh after the call.
ClosureApply(f, m) ==
    [m EXCEPT !.edits = @ + 1,
              !.vertices = IF f.edits THEN Append(@, <<"edited">>) ELSE @]

\* A mutation of modify_mesh: the mesh is uploaded whatever f returns.
modify_meshAlwaysUpload(o, f) ==
    LET m == ClosureApply(f, meshes[o.mesh])
    IN  [mesh   |-> [m EXCEPT !.uploads = @ + 1],
         calls  |-> << GlCall("with_mut_borrow", o.data, 0, o.mesh),
                       GlCall("f", o.data, 0, o.mesh),
                       GlCall("m.upload", o.data, 0, o.mesh) >>,
         failed |-> FALSE]

\* Object::modify_mesh.  with_mut_borrow fails the task when the mesh is
\* already borrowed, which is the case for a call made from inside f.
modify_mesh(o, f) ==
    IF f.reenters
    THEN [mesh   |-> meshes[o.mesh],
          calls  |-> << GlCall("with_mut_borrow", o.data, 0, o.mesh),
                        GlCall("f", o.data, 0, o.mesh),
                        GlCall("with_mut_borrow:fail", o.data, 0, o.mesh) >>,
          failed |-> TRUE]
    ELSE LET m == ClosureApply(f, meshes[o.mesh])
         IN  IF f.returns
             THEN [mesh   |-> [m EXCEPT !.uploads = @ + 1],
                   calls  |-> << GlCall("with_mut_borrow", o.data, 0, o.mesh),
                                 GlCall("f", o.data, 0, o.mesh),
                                 GlCall("m.upload", o.data, 0, o.mesh) >>,
                   failed |-> FALSE]
             ELSE [mesh   |-> m,
                   calls  |-> << GlCall("with_mut_borrow", o.data, 0, o.mesh),
                                 GlCall("f", o.data, 0, o.mesh) >>,
                   failed |-> FALSE]

ModifyMesh(o, f) ==
    LET r == modify_mesh(o, f)
    IN  /\ SceneRunning
        /\ scene_hist.n < MaxObjOps
        /\ meshes' = [meshes EXCEPT ![o.mesh] = r.mesh]
        /\ scene_hist' = [SceneHist("modify_mesh", o) EXCEPT !.key = f,
                                                             !.calls = r.calls,
                                                             !.failed = r.failed,
                                                             !.n = @ + 1]
        /\ UNCHANGED <<objects, heap, geometries, winVars, fbmVars, camVars>>

NextObj ==
    \/ AddCube(1, 1, 1)
    \/ \E o \in Handles, b \in BOOLEAN : SetVisible(o, b)
    \/ \E o \in Handles : SetScale(o, 2, 3, 4)
    \/ \E o \in Handles : SetColor(o, 0, 1, 0)
    \/ \E o \in Handles : SetTexture(o, "wood.png")
    \/ \E o \in Handles : LookAt(o, "eye", "at", "up")
    \/ \E o \in Handles : LookAtZ(o, "eye", "at", "up")
    \/ \E o \in Handles, f \in Closures : ModifyMesh(o, f)
    \/ SceneFrame(1)

SpecObj == Init /\ [][NextObj]_vars

SetterOps == {"set_visible", "set_scale", "set_color", "set_texture", "look_at", "look_at_z"}

\* What a setter called with arguments key is to make of the data block d.
SetterResult(op, key, d) ==
    CASE op = "set_visible" -> [d EXCEPT !.visible = key]
      [] op = "set_scale"   -> [d EXCEPT !.scale = key]
      [] op = "set_color"   -> [d EXCEPT !.color = key]
      [] op = "set_texture" -> [d EXCEPT !.texture = <<"texture", key>>]
      [] op = "look_at"     -> [d EXCEPT !.transform = <<"look_at", key[1], key[2], key[3]>>]
      [] op = "look_at_z"   -> [d EXCEPT !.transform = <<"look_at_z", key[1], key[2], key[3]>>]

\* The value of its object's data block that a call of an upload hands over.
UploadedValue(c) ==
    LET d == heap[c.obj].data
    IN  CASE c.call \in {"UniformMatrix4fv:transform", "UniformMatrix3fv:ntransform"}
                                              -> d.transform
          [] c.call = "UniformMatrix3fv:scale" -> d.scale
          [] c.call = "Uniform3f:color"        -> d.color
          [] c.call = "BindTexture"            -> d.texture
          [] OTHER                             -> c.val

(* C13: a call of set_visible, set_scale, set_color, set_texture, look_at or *)
(* look_at_z through a handle changes the data block of that Object as the  *)
(* setter says and nothing else: every Mesh, the mesh the Object refers to,  *)
(* the scene list and the data block of every other Object stay as they      *)
(* were; and the next frame uploads, for every scene entry, the values that  *)
(* the Object's data block then holds.                                       *)
C13_SettersChangeOwnDataOnly ==
    /\ [][scene_hist'.op \in SetterOps =>
             LET o == scene_hist'.arg
             IN  /\ meshes' = meshes
                 /\ objects' = objects
                 /\ geometries' = geometries
                 /\ Len(heap') = Len(heap)
                 /\ \A id \in 1..Len(heap) :
                       /\ heap'[id].mesh = heap[id].mesh
                       /\ id # o.data => heap'[id].data = heap[id].data
                 /\ heap'[o.data].data =
                       SetterResult(scene_hist'.op, scene_hist'.key, heap[o.data].data)
         ]_vars
    /\ [](scene_hist.op = "frame" =>
             \A i \in 1..Len(scene_hist.calls) :
                 scene_hist.calls[i].obj # 0 =>
                     scene_hist.calls[i].val = UploadedValue(scene_hist.calls[i]))

\* A frame that uploads a set colour for one cube while another cube of the same
\* mesh keeps the colour it was made with.
C13_Witness ==
    /\ scene_hist.op = "frame"
    /\ \E a, b \in 1..Len(heap) :
          /\ a # b
          /\ heap[a].mesh = heap[b].mesh
          /\ heap[a].data.color = <<0, 1, 0>>
          /\ heap[b].data.color = <<1, 1, 1>>
          /\ \E i, j \in 1..Len(scene_hist.calls) :
                /\ scene_hist.calls[i] = GlCall("Uniform3f:color", a, 0, <<0, 1, 0>>)
                /\ scene_hist.calls[j] = GlCall("Uniform3f:color", b, 0, <<1, 1, 1>>)

\* The calls of kind c that the last operation made.
CallCount(c) ==
    Cardinality({i \in 1..Len(scene_hist.calls) : scene_hist.calls[i].call = c})

(* C14: modify_mesh(f) takes the mutable borrow of the mesh once, calls f    *)
(* exactly once while it holds it, and calls the mesh's upload exactly once  *)
(* when f returns true and not at all when f returns false; no other mesh    *)
(* changes.  A call of modify_mesh made from inside f cannot take the        *)
(* borrow: it ends the task.                                                 *)
C14_ModifyMeshUploadsIffTrue ==
    [][scene_hist'.op = "modify_mesh" =>
          LET o == scene_hist'.arg
              f == scene_hist'.key
              c == scene_hist'.calls
              N(k) == Cardinality({i \in 1..Len(c) : c[i].call = k})
          IN  /\ N("with_mut_borrow") = 1
              /\ N("f") = 1
              /\ c[1].call = "with_mut_borrow" /\ c[2].call = "f"
              /\ \A m \in 1..Len(meshes) : m # o.mesh => meshes'[m] = meshes[m]
              /\ Len(meshes') = Len(meshes)
              /\ IF f.reenters
                 THEN scene_hist'.failed /\ N("m.upload") = 0
                 ELSE /\ ~scene_hist'.failed
                      /\ meshes'[o.mesh].edits = meshes[o.mesh].edits + 1
                      /\ N("m.upload") = (IF f.returns THEN 1 ELSE 0)
                      /\ meshes'[o.mesh].uploads =
                            meshes[o.mesh].uploads + (IF f.returns THEN 1 ELSE 0)
    ]_vars

\* A mesh that was handed to a closure twice, of which one returned true.
C14_Witness ==
    /\ scene_hist.op = "modify_mesh"
    /\ ~scene_hist.failed
    /\ ~scene_hist.key.returns
    /\ scene_hist.key.edits
    /\ CallCount("f") = 1
    /\ CallCount("m.upload") = 0
    /\ meshes[scene_hist.arg.mesh].edits = 2
    /\ meshes[scene_hist.arg.mesh].uploads = 1

(* C19: add_cube, add_sphere, add_cone, add_cylinder and add_capsule look    *)
(* their geometry up by name in the registry.  When the name is absent the unwrap of the empty lookup ends    *)
(* the task: no Object is returned and the scene list, the objects and the   *)
(* registry are what they were.  When the name is present one Object of the  *)
(* registered mesh is appended and returned.                                 *)
C19_MissingBuiltinFails ==
    [][scene_hist'.op \in {"add_cube", "add_sphere", "add_cone", "add_cylinder",
                            "add_capsule"} =>
          IF scene_hist'.key \in DOMAIN geometries
          THEN /\ ~scene_hist'.failed
               /\ scene_hist'.arg # NoObject
               /\ scene_hist'.arg.mesh = geometries[scene_hist'.key]
               /\ objects' = Append(objects, scene_hist'.arg)
          ELSE /\ scene_hist'.failed
               /\ scene_hist'.arg = NoObject
               /\ objects' = objects
               /\ heap' = heap
               /\ geometries' = geometries
               /\ meshes' = meshes
    ]_vars

\* add_sphere has failed on a window whose registry has no "sphere", after a
\* cube was added.
C19_Witness ==
    /\ scene_hist.op = "add_sphere"
    /\ scene_hist.failed
    /\ "sphere" \notin DOMAIN geometries
    /\ scene_hist.arg = NoObject
    /\ Len(objects) = 1
    /\ objects = scene_hist.before

----------------------------------------------------------------------------
(* Window::add_quad: the subdivided quad                                     *)

\* Coordinates are kept exact: a vertex (x, y, 0) is held as
\* <<2 ws x / 1, 2 hs y / 1, 0>> with x = j * (w / ws) - w / 2 and
\* y = i * (h / hs) - h / 2, a texture coordinate (u, v) as <<ws u, hs v>>.
QuadVertex(i, j, w, h, ws, hs)   == <<2 * j * w - ws * w, 2 * i * h - hs * h, 0>>
QuadTexCoord(i, j, ws, hs) == <<ws - j, hs - i>>

\* for j in range(0u, wsubdivs + 1) { vertices.push(..); tex_coords.push(..) }
RECURSIVE VertexLoopJ(_, _, _, _, _, _, _)
VertexLoopJ(acc, i, j, w, h, ws, hs) ==
    IF j >= ws + 1 THEN acc
    ELSE VertexLoopJ([vertices   |-> Append(acc.vertices, QuadVertex(i, j, w, h, ws, hs)),
                      tex_coords |-> Append(acc.tex_coords, QuadTexCoord(i, j, ws, hs))],
                     i, j + 1, w, h, ws, hs)

\* A mutation of the vertex loop: the rows run to hsubdivs, not hsubdivs + 1.
RECURSIVE VertexLoopIShort(_, _, _, _, _, _)
VertexLoopIShort(acc, i, w, h, ws, hs) ==
    IF i >= hs THEN acc
    ELSE VertexLoopIShort(VertexLoopJ(acc, i, 0, w, h, ws, hs), i + 1, w, h, ws, hs)

\* for i in range(0u, hsubdivs + 1) { for j .. }
RECURSIVE VertexLoopI(_, _, _, _, _, _)
VertexLoopI(acc, i, w, h, ws, hs) ==
    IF i >= hs + 1 THEN acc
    ELSE VertexLoopI(VertexLoopJ(acc, i, 0, w, h, ws, hs), i + 1, w, h, ws, hs)

\* do ((hsubdivs + 1) * (wsubdivs + 1)).times { normals.push(Vec3::new(1.0, 0.0, 0.0)) }
QuadNormals(ws, hs) == [k \in 1..((hs + 1) * (ws + 1)) |-> <<1, 0, 0>>]

dl_triangle(i, j, ws) == <<(i + 1) * ws + j, i * ws + j, (i + 1) * ws + j + 1>>

\* A mutation of ur_triangle: the third corner is taken in row i.
ur_triangleSameRow(i, j, ws) == <<i * ws + j, i * ws + (j + 1), i * ws + j + 1>>

ur_triangle(i, j, ws) == <<i * ws + j, i * ws + (j + 1), (i + 1) * ws + j + 1>>

\* for j in range(0u, wsubdivs) { triangles.push(dl ..); triangles.push(ur ..) }
RECURSIVE TriangleLoopJ(_, _, _, _)
TriangleLoopJ(acc, i, j, ws) ==
    IF j >= ws THEN acc
    ELSE TriangleLoopJ(Append(Append(acc, dl_triangle(i, j, ws + 1)),
                              ur_triangle(i, j, ws + 1)),
                       i, j + 1, ws)

\* for i in range(0u, hsubdivs) { for j .. }
RECURSIVE TriangleLoopI(_, _, _, _)
TriangleLoopI(acc, i, ws, hs) ==
    IF i >= hs THEN acc
    ELSE TriangleLoopI(TriangleLoopJ(acc, i, 0, ws), i + 1, ws, hs)

\* The Mesh add_quad builds.
QuadMesh(w, h, ws, hs) ==
    LET vt == VertexLoopI([vertices |-> <<>>, tex_coords |-> <<>>], 0, w, h, ws, hs)
    IN  MeshNew(<<"add_quad", <<w, h, ws, hs>>>>, vt.vertices,
                TriangleLoopI(<<>>, 0, ws, hs), QuadNormals(ws, hs), vt.tex_coords)

\* Window::add_quad
AddQuad(w, h, wsubdivs, hsubdivs) ==
    /\ MayAdd
    /\ IF wsubdivs > 0 /\ hsubdivs > 0
       THEN /\ meshes' = Append(meshes, QuadMesh(w, h, wsubdivs, hsubdivs))
            /\ PushNew("add_quad", <<w, h, wsubdivs, hsubdivs>>, Len(meshes) + 1,
                       ObjectNew(1, 1, 1))
            /\ UNCHANGED geometries
       ELSE SceneFail("add_quad", <<w, h, wsubdivs, hsubdivs>>)
    /\ UNCHANGED <<winVars, fbmVars, camVars>>

\* The subdivision counts add_quad is called with.
QuadArgs == ((0..MaxSubdivs) \X (0..MaxSubdivs)) \cup {<<4, 4>>}

NextQuad ==
    \/ \E a \in QuadArgs : AddQuad(2, 2, a[1], a[2])
    \/ AddCube(1, 1, 1)

SpecQuad == Init /\ [][NextQuad]_vars

(* C18: add_quad(w, h, ws, hs) with ws >= 1 and hs >= 1 builds one new mesh  *)
(* of (ws + 1) * (hs + 1) vertices, as many normals and as many texture      *)
(* coordinates, and 2 * ws * hs triangles whose indices are vertices of the  *)
(* mesh (25 vertices and 32 triangles for 4 by 4), and appends exactly one   *)
(* new Object of that mesh to the scene, which it returns; with ws = 0 or    *)
(* hs = 0 the assertion ends the task and scene, objects and meshes are what *)
(* they were.                                                                *)
C18_QuadCounts ==
    [][scene_hist'.op = "add_quad" =>
          LET ws == scene_hist'.key[3]
              hs == scene_hist'.key[4]
              o  == scene_hist'.arg
          IN  IF ws >= 1 /\ hs >= 1
              THEN /\ ~scene_hist'.failed
                   /\ Len(meshes') = Len(meshes) + 1
                   /\ SubSeq(meshes', 1, Len(meshes)) = meshes
                   /\ o.mesh = Len(meshes')
                   /\ LET m == meshes'[o.mesh]
                      IN  /\ Len(m.vertices)   = (ws + 1) * (hs + 1)
                          /\ Len(m.normals)    = (ws + 1) * (hs + 1)
                          /\ Len(m.tex_coords) = (ws + 1) * (hs + 1)
                          /\ Len(m.triangles)  = 2 * ws * hs
                          /\ \A t \in 1..Len(m.triangles), k \in 1..3 :
                                m.triangles[t][k] \in 0..(Len(m.vertices) - 1)
                          /\ (ws = 4 /\ hs = 4) =>
                                Len(m.vertices) = 25 /\ Len(m.triangles) = 32
                   /\ objects' = Append(objects, o)
                   /\ Len(heap') = Len(heap) + 1
                   /\ o.data = Len(heap')
                   /\ SubSeq(heap', 1, Len(heap)) = heap
              ELSE /\ scene_hist'.failed
                   /\ o = NoObject
                   /\ objects' = objects /\ heap' = heap /\ meshes' = meshes
    ]_vars

\* A quad of 4 by 4 subdivisions was added after a quad of 1 by 2.
C18_Witness ==
    /\ scene_hist.op = "add_quad"
    /\ ~scene_hist.failed
    /\ scene_hist.key[3] = 4 /\ scene_hist.key[4] = 4
    /\ Len(meshes[scene_hist.arg.mesh].vertices) = 25
    /\ Len(meshes[scene_hist.arg.mesh].triangles) = 32
    /\ Len(objects) = 2
    /\ Len(meshes[objects[1].mesh].vertices) = 6
    /\ Len(meshes[objects[1].mesh].triangles) = 4

\* The meshes add_quad has built.
QuadMeshes == {m \in 1..Len(meshes) : meshes[m].src[1] = "add_quad"}
\* The vertices of triangle t, and the indices of the four corners of grid cell
\* (i, j) of a quad of ws subdivisions a row: vertex (i, j) was pushed as the
\* (i * (ws + 1) + j)-th.
Corners(t) == {t[1], t[2], t[3]}
CellCorners(i, j, ws) ==
    {i * (ws + 1) + j, i * (ws + 1) + j + 1, (i + 1) * (ws + 1) + j, (i + 1) * (ws + 1) + j + 1}

(* C35: in every mesh add_quad has built with wsubdivs >= 1 and            *)
(* hsubdivs >= 1, every index of every triangle is less than the number of *)
(* vertices (wsubdivs + 1) * (hsubdivs + 1); each grid cell (i, j) has     *)
(* exactly two triangles, pushed one after the other, which together use   *)
(* exactly the four corner vertices of the cell and have exactly two       *)
(* vertices in common.                                                     *)
C35_QuadCells ==
    \A m \in QuadMeshes :
        LET ws == meshes[m].src[2][3]
            hs == meshes[m].src[2][4]
            tr == meshes[m].triangles
        IN  /\ ws >= 1 /\ hs >= 1
            /\ Len(meshes[m].vertices) = (ws + 1) * (hs + 1)
            /\ \A t \in 1..Len(tr), k \in 1..3 :
                  tr[t][k] >= 0 /\ tr[t][k] < (ws + 1) * (hs + 1)
            /\ \A i \in 0..(hs - 1), j \in 0..(ws - 1) :
                  LET of == {t \in 1..Len(tr) : Corners(tr[t]) \subseteq CellCorners(i, j, ws)}
                      a  == 2 * (i * ws + j) + 1
                  IN  /\ of = {a, a + 1}
                      /\ Cardinality(Corners(tr[a])) = 3
                      /\ Cardinality(Corners(tr[a + 1])) = 3
                      /\ Corners(tr[a]) \cup Corners(tr[a + 1]) = CellCorners(i, j, ws)
                      /\ Cardinality(Corners(tr[a]) \cap Corners(tr[a + 1])) = 2

\* A quad of 2 by 1 subdivisions was added: the last cell, (0, 1), has the
\* triangles (4, 1, 5) and (1, 2, 5) of the 6 vertices.
C35_Witness ==
    /\ scene_hist.op = "add_quad"
    /\ ~scene_hist.failed
    /\ scene_hist.key[3] = 2 /\ scene_hist.key[4] = 1
    /\ LET tr == meshes[scene_hist.arg.mesh].triangles
       IN  /\ Len(meshes[scene_hist.arg.mesh].vertices) = 6
           /\ Len(tr) = 4
           /\ tr[3] = <<4, 1, 5>>
           /\ tr[4] = <<1, 2, 5>>

----------------------------------------------------------------------------
(* The graphics calls of the core and their error checks.  A call may flag   *)
(* an error in the context; the flag stays until it is read.  verify!(call)  *)
(* makes the call, reads the flag and fails the task when it is set.         *)

\* A statement that makes a graphics call: checked when it is wrapped in verify!.
Stmt(call, line, checked) == [call |-> call, line |-> line, checked |-> checked]

\* The texture half of new_render_target (framebuffers_manager.rs:103-114, 117-128).
NewTextureStmts(l) ==
    << Stmt("ActiveTexture", l, TRUE),     Stmt("GenTextures", l + 1, TRUE),
       Stmt("BindTexture", l + 2, TRUE),   Stmt("TexParameteri", l + 3, TRUE),
       Stmt("TexParameteri", l + 4, TRUE), Stmt("TexParameteri", l + 5, TRUE),
       Stmt("TexParameteri", l + 6, TRUE), Stmt("TexImage2D", l + 8, TRUE),
       Stmt("BindTexture", l + 11, TRUE) >>

\* The core operations that issue graphics calls.
GlOps == {"FramebuffersManager::new", "new_render_target", "resize:Screen",
          "resize:Offscreen", "select:Screen", "select:Offscreen",
          "drop:FramebuffersManager", "drop:OffscreenBuffers", "Object::upload",
          "render_scene", "update_viewport", "draw:post_processing"}

\* The graphics calls of each operation, in the order of the source, each with
\* its line and whether it is wrapped in verify!.
GlProgram(op) ==
    CASE op = "FramebuffersManager::new" ->
            << Stmt("GenFramebuffers", 83, FALSE), Stmt("BindFramebuffer", 86, TRUE) >>
      [] op = "new_render_target" -> NewTextureStmts(103) \o NewTextureStmts(117)
      [] op = "resize:Screen" -> << Stmt("Viewport", 46, TRUE) >>
      [] op = "resize:Offscreen" ->
            << Stmt("BindTexture", 50, TRUE), Stmt("TexImage2D", 52, TRUE),
               Stmt("BindTexture", 55, TRUE), Stmt("BindTexture", 57, TRUE),
               Stmt("TexImage2D", 59, TRUE),  Stmt("BindTexture", 62, TRUE) >>
      [] op = "select:Screen" -> << Stmt("BindFramebuffer", 173, TRUE) >>
      [] op = "select:Offscreen" ->
            << Stmt("BindFramebuffer", 173, TRUE), Stmt("FramebufferTexture2D", 150, TRUE),
               Stmt("FramebufferTexture2D", 159, TRUE) >>
      [] op = "drop:FramebuffersManager" ->
            << Stmt("BindFramebuffer", 182, TRUE), Stmt("DeleteFramebuffers", 183, TRUE) >>
      [] op = "drop:OffscreenBuffers" ->
            << Stmt("DeleteBuffers", 189, TRUE), Stmt("DeleteBuffers", 190, TRUE) >>
      [] op = "Object::upload" ->
            << Stmt("UniformMatrix4fv", 74, TRUE), Stmt("UniformMatrix3fv", 79, TRUE),
               Stmt("UniformMatrix3fv", 84, TRUE), Stmt("Uniform3f", 86, TRUE),
               Stmt("ActiveTexture", 91, TRUE),    Stmt("BindTexture", 92, TRUE),
               Stmt("DrawElements", 94, TRUE) >>
      [] op = "render_scene" ->
            << Stmt("ActiveTexture", 704, TRUE), Stmt("ClearColor", 706, TRUE),
               Stmt("Clear", 707, TRUE),         Stmt("Clear", 708, TRUE),
               Stmt("PolygonMode", 720, TRUE) >>
      [] op = "update_viewport" -> << Stmt("Scissor", 731, TRUE) >>
      [] op = "draw:post_processing" -> << Stmt("PolygonMode", 669, TRUE) >>

\* verify!: the flag is read, which clears it, and the task fails when it was set.
verify(pending) == [aborted |-> pending, pending |-> FALSE]

\* A core operation starts.
GlBegin(op) ==
    /\ glrun.op = "idle"
    /\ ~glrun.aborted
    /\ glrun' = [glrun EXCEPT !.op = op, !.pc = 1]
    /\ UNCHANGED <<fbm, gl, sel, winVars, camVars, sceneVars>>

\* The next statement of the operation runs; err: the call flags an error.
\* stale: an error flagged by an earlier call was still unread at this call.
GlIssue(err) ==
    /\ glrun.op # "idle"
    /\ ~glrun.aborted
    /\ glrun.pc <= Len(GlProgram(glrun.op))
    /\ LET st == GlProgram(glrun.op)[glrun.pc]
           p1 == glrun.pending \/ err
       IN  glrun' = [op      |-> glrun.op,
                     pc      |-> glrun.pc + 1,
                     pending |-> IF st.checked THEN verify(p1).pending ELSE p1,
                     aborted |-> IF st.checked THEN verify(p1).aborted ELSE FALSE,
                     last    |-> st,
                     stale   |-> glrun.pending]
    /\ UNCHANGED <<fbm, gl, sel, winVars, camVars, sceneVars>>

\* The operation returns.
GlReturn ==
    /\ glrun.op # "idle"
    /\ ~glrun.aborted
    /\ glrun.pc > Len(GlProgram(glrun.op))
    /\ glrun' = [glrun EXCEPT !.op = "idle", !.pc = 0]
    /\ UNCHANGED <<fbm, gl, sel, winVars, camVars, sceneVars>>

NextGl ==
    \/ \E op \in GlOps : GlBegin(op)
    \/ \E err \in BOOLEAN : GlIssue(err)
    \/ GlReturn

SpecGl == Init /\ [][NextGl]_vars

(* C20 as claimed: every graphics call the core issues is immediately        *)
(* followed by an error check that fails the task on an error, so that no    *)
(* call is issued while the error of an earlier call is unread; this         *)
(* includes the calls of FramebuffersManager::new.                           *)
C20_EveryCallChecked ==
    /\ glrun.last.checked
    /\ ~glrun.stale

\* gl::GenFramebuffers has flagged an error and FramebuffersManager::new goes on
\* to its next call.
C20_Witness ==
    /\ glrun.op = "FramebuffersManager::new"
    /\ glrun.last = Stmt("GenFramebuffers", 83, FALSE)
    /\ glrun.pending
    /\ ~glrun.aborted

----------------------------------------------------------------------------
(* The hand-off of the event queue (window.rs:440-466, 577-611)            *)
(*                                                                         *)
(* self.events is an RWArc: a callback appends inside events.write, and    *)
(* poll_events goes through the batch inside events.read and then clears   *)
(* the queue inside a second section, events.write.  The two sections of   *)
(* poll_events are two steps here, and a callback may run whenever no      *)
(* section is open: before the read section and between the read section   *)
(* and the clear.  The k-th event appended is a cursor move to (k, 0).     *)

IsPush(e) == e.op = "push"
\* The events appended so far.
Pushed == SelectSeq(log, IsPush)

\* The user starts handing events over by hand.
HandoffEnter ==
    /\ pc = "setup"
    /\ pc' = "handoff_idle"
    /\ log' = <<>>
    /\ UNCHANGED <<should_close, events, post_processing, max_ms_per_frame,
                   camera, win_size, view, closed_on_entry, callback_invoked>>
    /\ UNCHANGED <<fbmVars, camVars, sceneVars>>

\* The cursor-position callback, run by the windowing layer while no section
\* on the queue is open: collector.write(|c| c.push(event::CursorPos(x, y)))
CallbackAppend ==
    /\ pc \in {"handoff_idle", "handoff_read"}
    /\ Len(Pushed) < MaxAppends
    /\ LET e == Ev("CursorPos", "", Len(Pushed) + 1, 0)
       IN  /\ Push(e)
           /\ log' = Append(log, L("push", "callback", e, Len(events) + 1, TRUE, gl.bound))
    /\ UNCHANGED <<pc, should_close, post_processing, max_ms_per_frame,
                   camera, win_size, view, closed_on_entry, callback_invoked>>
    /\ UNCHANGED <<fbmVars, camVars, sceneVars>>

\* poll_events, the read section (window.rs:443-462): every event of the
\* queue goes to the handler, which answers h[i] for the i-th one.
HandoffRead(h) ==
    /\ pc = "handoff_idle"
    /\ pc' = "handoff_read"
    /\ LET d == Dispatch(Disp(should_close, view, log), events, h, "user", 1)
       IN  /\ should_close' = d.close
           /\ view' = d.view
           /\ log' = d.log
    /\ UNCHANGED <<events, post_processing, max_ms_per_frame, camera,
                   win_size, closed_on_entry, callback_invoked>>
    /\ UNCHANGED <<fbmVars, camVars, sceneVars>>

\* poll_events, the write section (window.rs:465): the queue is cleared.
HandoffClear ==
    /\ pc = "handoff_read"
    /\ pc' = "handoff_idle"
    /\ events' = Clear(events)
    /\ UNCHANGED <<should_close, post_processing, max_ms_per_frame, camera,
                   win_size, view, log, closed_on_entry, callback_invoked>>
    /\ UNCHANGED <<fbmVars, camVars, sceneVars>>

NextHandoff ==
    \/ HandoffEnter
    \/ CallbackAppend
    \/ \E h \in [1..Len(events) -> BOOLEAN] : HandoffRead(h)
    \/ HandoffClear

SpecHandoff == Init /\ [][NextHandoff]_vars

\* The number of times event e went to the user handler.
Deliveries(e) == Cardinality({i \in 1..Len(log) : log[i].op = "handler" /\ log[i].ev = e})

(* C29: no event is lost by the hand-off: every event a callback appended  *)
(* goes to the user handler exactly once - never twice, and once by the    *)
(* time poll_events has returned with the queue empty - for every          *)
(* interleaving of the appends with the read section and the clear of the  *)
(* drain, an append between the two included.                              *)
C29_NoEventLost ==
    /\ \A i \in 1..Len(Pushed) : Deliveries(Pushed[i].ev) <= 1
    /\ (pc = "handoff_idle" /\ events = <<>>) =>
          \A i \in 1..Len(Pushed) : Deliveries(Pushed[i].ev) = 1

\* poll_events has returned and the queue is empty; the first event went to
\* the handler, the second one was appended after the read section and went
\* to no handler.
C29_Witness ==
    /\ pc = "handoff_idle"
    /\ events = <<>>
    /\ Len(Pushed) = 2
    /\ Deliveries(Pushed[1].ev) = 1
    /\ Deliveries(Pushed[2].ev) = 0
    /\ log[Len(log)].op = "push"

----------------------------------------------------------------------------
(* The key and mouse button callbacks with the native action on record     *)
(* (window.rs:583-601)                                                     *)
(*                                                                         *)
(* Each run of a callback leaves a log entry: op names the callback, by is *)
(* the action glfw reported (Press, Release or, for a key held down,       *)
(* Repeat), ev is the event that was pushed.  The queue is then drained by *)
(* poll_events as above.                                                   *)

NativeOps == {"key_callback", "mouse_button_callback"}
IsNative(e) == e.op \in NativeOps
\* The runs of the two callbacks so far.
Natives == SelectSeq(log, IsNative)

\* A run of callback op on the native action, pushing event e.
NativeInput(op, action, e) ==
    /\ pc = "handoff_idle"
    /\ Len(Natives) < MaxAppends
    /\ Push(e)
    /\ log' = Append(log, [L(op, action, e, Len(events) + 1, TRUE, gl.bound) EXCEPT !.by = action])
    /\ UNCHANGED <<pc, should_close, post_processing, max_ms_per_frame,
                   camera, win_size, view, closed_on_entry, callback_invoked>>
    /\ UNCHANGED <<fbmVars, camVars, sceneVars>>

\* set_key_callback's closure, called by glfw
NativeKey(key, action) == NativeInput("key_callback", action, key_callback(key, action))

\* set_mouse_button_callback's closure, called by glfw
NativeButton(button, action) ==
    NativeInput("mouse_button_callback", action, mouse_button_callback(button, action))

NextKeys ==
    \/ HandoffEnter
    \/ \E k \in Keys, a \in KeyActions : NativeKey(k, a)
    \/ \E b \in Buttons, a \in ButtonActions : NativeButton(b, a)
    \/ \E h \in [1..Len(events) -> BOOLEAN] : HandoffRead(h)
    \/ HandoffClear

SpecKeys == Init /\ [][NextKeys]_vars

(* C31: the key callback enqueues exactly one event per invocation, a      *)
(* key-pressed event only for a native press and a key-released event only *)
(* for a native release, and likewise for mouse buttons; so the default    *)
(* escape handling requests the close only after escape was released,      *)
(* never on a key-repeat action.                                           *)
C31_ReleaseOnlyOnRelease ==
    LET ns == Natives
    IN  /\ Len(ns) = CountIn(log, "handler") + (IF pc = "handoff_idle" THEN Len(events) ELSE 0)
        /\ \A i \in 1..Len(ns) :
              /\ ns[i].ev.kind \in {"KeyPressed", "ButtonPressed"} => ns[i].by = "Press"
              /\ ns[i].ev.kind \in {"KeyReleased", "ButtonReleased"} => ns[i].by = "Release"
        /\ should_close =>
              \E i \in 1..Len(ns) : /\ ns[i].op = "key_callback"
                                    /\ ns[i].ev.key = "Escape"
                                    /\ ns[i].by = "Release"

\* The window was asked to close after escape was pressed and repeated, and
\* never released.
C31_Witness ==
    /\ should_close
    /\ Len(Natives) = 2
    /\ Natives[1].by = "Press" /\ Natives[1].ev = Ev("KeyPressed", "Escape", 0, 0)
    /\ Natives[2].by = "Repeat" /\ Natives[2].ev = Ev("KeyReleased", "Escape", 0, 0)
    /\ \E i \in 1..Len(log) : log[i].op = "default_close"

----------------------------------------------------------------------------
(* The selected shader program during the passes of a frame                *)
(* (window.rs:646-657, 702-726)                                            *)
(*                                                                         *)
(* A shading state is the program ShadersManager has selected, the number  *)
(* of lines queued in the LinesManager and the calls made so far.  The val *)
(* of an upload call is the pair of the program selected when the call is  *)
(* made and the context handed to it.                                      *)

Programs == {"ObjectShader", "LinesShader", "OtherShader"}
QueuedLines == 0..2

Sh(cur, lines, calls) == [cur |-> cur, lines |-> lines, calls |-> calls]

\* self.shaders_manager.select(prog)
ShSelect(s, prog, pass) ==
    [s EXCEPT !.cur = prog, !.calls = Append(@, GlCall("select", 0, pass, prog))]

\* self.camera.upload(pass, location of view in the context ctx)
ShCameraUpload(s, ctx, pass) ==
    [s EXCEPT !.calls = Append(@, GlCall("camera.upload", 0, pass, <<s.cur, ctx>>))]

\* self.lines_manager.upload(self.shaders_manager.lines_context()): the queued
\* lines are drawn in one batch and the queue is emptied.
ShLinesUpload(s, pass) ==
    [s EXCEPT !.lines = 0,
              !.calls = Append(@, GlCall("lines.upload", 0, pass, <<s.cur, "lines_context">>))]

\* o.upload(self.shaders_manager.object_context())
ShObjectUpload(s, o, pass) ==
    [s EXCEPT !.calls = Append(@, GlCall("Object.upload", o.data, pass,
                                         <<s.cur, "object_context">>))]

RECURSIVE ShUploadAll(_, _, _, _)
\* window.rs:723-725: for o in self.objects.iter() { o.upload(..) }
ShUploadAll(s, os, i, pass) ==
    IF i > Len(os) THEN s ELSE ShUploadAll(ShObjectUpload(s, os[i], pass), os, i + 1, pass)

\* A mutation of the line rendering of render_scene: the object-shading
\* program is not selected again after the lines.
ShRenderSceneNoReselect(s, pass) ==
    LET s1 == IF s.lines > 0
              THEN ShLinesUpload(ShSelect(s, "LinesShader", pass), pass)
              ELSE s
    IN  ShUploadAll(s1, objects, 1, pass)

\* Window::render_scene, as to the programs (window.rs:710-725)
ShRenderScene(s, pass) ==
    LET s1 == IF s.lines > 0
              THEN ShSelect(ShLinesUpload(ShSelect(s, "LinesShader", pass), pass),
                            "ObjectShader", pass)
              ELSE s
    IN  ShUploadAll(s1, objects, 1, pass)

\* window.rs:647-657: one camera pass, as to the programs
ShOnePass(s, pass) ==
    LET s1 == ShCameraUpload(ShSelect(s,  "LinesShader",  pass), "lines_context",  pass)
        s2 == ShCameraUpload(ShSelect(s1, "ObjectShader", pass), "object_context", pass)
    IN  ShRenderScene(s2, pass)

RECURSIVE ShPasses(_, _, _)
\* window.rs:646: for pass in range(0u, self.camera.num_passes())
ShPasses(s, pass, n) ==
    IF pass >= n THEN s ELSE ShPasses(ShOnePass(s, pass), pass + 1, n)

\* One frame drawn with a camera of n passes, nl lines queued since the last
\* frame and program cur selected when draw is entered.
ShaderFrame(n, nl, cur) ==
    /\ SceneRunning
    /\ scene_hist' = [SceneHist("shader_frame", NoObject) EXCEPT
                          !.key = <<n, nl, cur>>,
                          !.calls = ShPasses(Sh(cur, nl, <<>>), 0, n).calls]
    /\ UNCHANGED <<objects, heap, geometries, meshes, winVars, fbmVars, camVars>>

NextShaders ==
    \/ AddCube(1, 1, 1)
    \/ \E o \in Handles, b \in BOOLEAN : SetVisible(o, b)
    \/ \E n \in 0..MaxPasses, nl \in QueuedLines, cur \in Programs : ShaderFrame(n, nl, cur)

SpecShaders == Init /\ [][NextShaders]_vars

\* The calls of the last frame of kind c.
ShCalls(c) == {i \in 1..Len(scene_hist.calls) : scene_hist.calls[i].call = c}

(* C33: whenever Object.upload is invoked during a frame, for any number   *)
(* of passes and with or without queued lines, the selected program is the *)
(* object-shading program and the locations handed to upload are those of  *)
(* that program; the line rendering of render_scene is followed at once by *)
(* the selection of the object-shading program, before any object is       *)
(* uploaded.                                                               *)
C33_ObjectShaderAtUpload ==
    scene_hist.op = "shader_frame" =>
        LET c == scene_hist.calls
        IN  /\ \A i \in ShCalls("Object.upload") :
                  c[i].val = <<"ObjectShader", "object_context">>
            /\ \A i \in ShCalls("lines.upload") :
                  /\ i < Len(c)
                  /\ c[i + 1].call = "select" /\ c[i + 1].val = "ObjectShader"
                  /\ \A j \in ShCalls("Object.upload") :
                        (j > i /\ c[j].pass = c[i].pass) => j > i + 1

\* A frame of two passes, entered with another program selected and with
\* lines queued, that has drawn two objects in each pass after the lines.
C33_Witness ==
    /\ scene_hist.op = "shader_frame"
    /\ scene_hist.key = <<2, 2, "OtherShader">>
    /\ Len(objects) = 2
    /\ Cardinality(ShCalls("lines.upload")) = 1
    /\ Cardinality(ShCalls("Object.upload")) = 4
    /\ \E i \in ShCalls("lines.upload"), j \in ShCalls("Object.upload") :
          j = i + 2 /\ scene_hist.calls[j].val[1] = "ObjectShader"

----------------------------------------------------------------------------
(* Dropping an offscreen render target (framebuffers_manager.rs:187-192)   *)
(*                                                                         *)
(* The context keeps one name space for each kind of object: gl.textures   *)
(* are the texture names in use, gl.buffers the buffer object names in     *)
(* use.  The two targets were made by new_render_target; the buffer        *)
(* objects are those of the meshes uploaded so far, whose names the        *)
(* implementation chose.                                                   *)

BufferNames == {1, 2, 5}

\* gl::DeleteBuffers(1, &name): the buffer object of that name is deleted; a
\* name that is no buffer object is silently ignored.
GlDeleteBuffers(g, name) == [g EXCEPT !.buffers = @ \ {name}]

\* impl Drop for OffscreenBuffers
drop(g, t) == GlDeleteBuffers(GlDeleteBuffers(g, t.texture), t.depth)

\* The offscreen target t goes out of scope.
DropTarget(t) ==
    /\ t.kind = "Offscreen"
    /\ t \notin sel.dropped
    /\ gl' = drop(gl, t)
    /\ sel' = [sel EXCEPT !.last_target = NoTarget, !.resized = NoResize,
                          !.dropped = @ \cup {t},
                          !.drop = [target |-> t, textures |-> gl.textures,
                                    buffers |-> gl.buffers]]
    /\ UNCHANGED <<fbm, glrun, winVars, camVars, sceneVars>>

InitDrop ==
    /\ WinInit /\ CamIdle /\ SceneIdle
    /\ fbm = FramebuffersManagerNew.fbm
    /\ \E B \in SUBSET BufferNames : gl = [FramebuffersManagerNew.gl EXCEPT !.buffers = B]
    /\ sel = SelNew
    /\ glrun = GlIdle

NextDrop ==
    \/ \E t \in Targets \ sel.dropped : Select(t)
    \/ \E t \in Targets : DropTarget(t)

SpecDrop == InitDrop /\ [][NextDrop]_vars

(* C34: destroying an offscreen render target releases exactly its two     *)
(* texture objects: after the drop neither its color texture nor its depth *)
(* texture is allocated, every other texture still is, and no buffer       *)
(* object is deleted, whatever its name.                                   *)
C34_DropReleasesTextures ==
    sel.drop.target # NoTarget =>
        /\ gl.textures = sel.drop.textures \ {sel.drop.target.texture, sel.drop.target.depth}
        /\ gl.buffers = sel.drop.buffers

\* The post-processing target was dropped: its two textures are still
\* allocated, and the buffer objects named 1 and 2 are gone.
C34_Witness ==
    /\ sel.drop.target = PostProcessTarget
    /\ {1, 2} \subseteq sel.drop.textures
    /\ {1, 2} \subseteq gl.textures
    /\ {1, 2} \subseteq sel.drop.buffers
    /\ gl.buffers = sel.drop.buffers \ {1, 2}

====
